---- MODULE Spec2Model ----
(***************************************************************************)
(* Model of the live trading loop of the Kalshi / Polymarket arbitrage     *)
(* bot: the in-process message bus, the market manager and its order       *)
(* books, the arbitrage monitor, the two-leg executor, the unwinder and    *)
(* the trade-storage handler, wired as app/bootstrap.py wires them.        *)
(*                                                                         *)
(* Units.  Prices are whole cents (Decimal price * 100).  Sizes are        *)
(* counted in 1/SizeScale of a contract, so that a top-of-book size below  *)
(* one contract (Polymarket sizes are decimals) can be represented.        *)
(* Time is in seconds.                                                     *)
(***************************************************************************)
EXTENDS Integers, Sequences, FiniteSets, TLC

\* ---------------------------------------------------------------------
\* Bounds of the model
\* ---------------------------------------------------------------------
MaxFeed == 3
MaxNow == 6
TickStep == 6
SizeScale == 2
MaxBatchSize == 2
MaxBusMsgs == 5
MaxRaw == 3
MaxSeq == 3
MaxConnects == 2
MaxRecords == 3
MaxFailed == 2
MaxUnwindSize == 2
MaxResets == 1
MaxStored == 1
MaxDepth == 2

\* ---------------------------------------------------------------------
\* Program constants
\* ---------------------------------------------------------------------
STALENESS_THRESHOLD == 5
PROFITABILITY_BUFFER == 1
KALSHI_FEE_RATE == 7
_max_trade_size == 50
SEQ_GAP_CLOSE_CODE == 4000

None == "None"
KALSHI == "KALSHI"
POLYMARKET == "POLYMARKET"
BUY == "BUY"
SELL == "SELL"

\* The one configured market pair; its id is its Kalshi ticker.
M1 == "K1"
market_config == [id |-> M1, kalshi_ticker |-> M1,
                  polymarket_yes_token_id |-> "Y1", polymarket_no_token_id |-> "N1"]

\* Prices and sizes the venues send.  Kalshi sizes are whole contracts,
\* Polymarket sizes may be a fraction of one.
Prices == {40, 58}
KalshiSizes == {0, SizeScale, 2 * SizeScale}
PolymarketSizes == {0, 1, 2 * SizeScale}

\* The value of an absent best level, an absent price, an absent order.
NoLevel == <<>>
NoPrice == -1
NoOrder == [present |-> FALSE]
NoError == "None"
NoOp == [op |-> "none"]
NoLoops == <<>>

\* FletcherOrchestrator._tasks = {} : no task under any name.
TaskNames == {"kalshi_connect", "poly_connect", "message_bus", "flush_task", "shutdown_monitor"}
NoTasks == [name \in TaskNames |-> 0]

Min(a, b) == IF a <= b THEN a ELSE b
Abs(a) == IF a >= 0 THEN a ELSE 0 - a
CeilDiv(a, b) == (a + b - 1) \div b

\* ---------------------------------------------------------------------
\* Orderbook (app/markets/order_book.py).  A ladder is a function from
\* the set of prices it holds to the size stored at each price.
\* ---------------------------------------------------------------------
EmptyLadder == [p \in {} |-> 0]

NewOrderbook(t) == [bids |-> EmptyLadder, asks |-> EmptyLadder, last_update |-> t]

LadderPop(l, price) == [p \in (DOMAIN l) \ {price} |-> l[p]]
LadderSet(l, price, size) ==
    [p \in (DOMAIN l) \cup {price} |-> IF p = price THEN size ELSE l[p]]

\* An apply_update that stores every size it is given, 0 included.
apply_update_stores_zero(book, side, price, size, t) ==
    LET book_side == IF side = BUY THEN book.bids ELSE book.asks
        updated == LadderSet(book_side, price, size)
    IN IF side = BUY
       THEN [book EXCEPT !.bids = updated, !.last_update = t]
       ELSE [book EXCEPT !.asks = updated, !.last_update = t]

\* An apply_update that adds the size to the one the level holds.
apply_update_adds_size(book, side, price, size, t) ==
    LET book_side == IF side = BUY THEN book.bids ELSE book.asks
        updated == IF size = 0 THEN LadderPop(book_side, price)
                   ELSE LadderSet(book_side, price,
                                  size + (IF price \in DOMAIN book_side THEN book_side[price] ELSE 0))
    IN IF side = BUY
       THEN [book EXCEPT !.bids = updated, !.last_update = t]
       ELSE [book EXCEPT !.asks = updated, !.last_update = t]

apply_update(book, side, price, size, t) ==
    LET book_side == IF side = BUY THEN book.bids ELSE book.asks
        updated == IF size = 0 THEN LadderPop(book_side, price)
                   ELSE LadderSet(book_side, price, size)
    IN IF side = BUY
       THEN [book EXCEPT !.bids = updated, !.last_update = t]
       ELSE [book EXCEPT !.asks = updated, !.last_update = t]

RECURSIVE apply_updates(_, _, _, _)
apply_updates(book, side, updates, t) ==
    IF updates = <<>> THEN book
    ELSE apply_updates(apply_update(book, side, Head(updates)[1], Head(updates)[2], t),
                       side, Tail(updates), t)

MaxOf(S) == CHOOSE x \in S : \A y \in S : y <= x
MinOf(S) == CHOOSE x \in S : \A y \in S : x <= y

\* A top of book that keeps the best prices and drops their sizes.
get_top_of_book_sizeless(book) ==
    LET best_bid == IF DOMAIN book.bids = {} THEN NoLevel
                    ELSE <<MaxOf(DOMAIN book.bids), 0>>
        best_ask == IF DOMAIN book.asks = {} THEN NoLevel
                    ELSE <<MinOf(DOMAIN book.asks), 0>>
    IN <<best_bid, best_ask>>

get_top_of_book(book) ==
    LET best_bid == IF DOMAIN book.bids = {} THEN NoLevel
                    ELSE <<MaxOf(DOMAIN book.bids), book.bids[MaxOf(DOMAIN book.bids)]>>
        best_ask == IF DOMAIN book.asks = {} THEN NoLevel
                    ELSE <<MinOf(DOMAIN book.asks), book.asks[MinOf(DOMAIN book.asks)]>>
    IN <<best_bid, best_ask>>

clear(book, t) == [bids |-> EmptyLadder, asks |-> EmptyLadder, last_update |-> t]

\* The items of a side in the iteration order of its SortedDict: bids by
\* -price, so the highest price first; asks the lowest price first.
RECURSIVE sorted_items(_, _)
sorted_items(ladder, highest_first) ==
    IF DOMAIN ladder = {} THEN <<>>
    ELSE LET price == IF highest_first THEN MaxOf(DOMAIN ladder) ELSE MinOf(DOMAIN ladder)
         IN <<<<price, ladder[price]>>>> \o sorted_items(LadderPop(ladder, price), highest_first)

\* itertools.islice(iterable, start, stop): ValueError for a negative
\* index, otherwise the elements at the 0-based positions start..stop-1
\* that exist.
islice_raises(start, stop) == start < 0 \/ stop < 0
islice(iterable, start, stop) == SubSeq(iterable, start + 1, Min(stop, Len(iterable)))

get_book_snapshot(book, depth) ==
    LET bid_items == sorted_items(book.bids, TRUE)
    IN IF islice_raises(Len(bid_items) - depth, Len(bid_items)) \/ islice_raises(0, depth)
       THEN [raised |-> "ValueError"]
       ELSE [raised |-> None,
             bids |-> islice(bid_items, Len(bid_items) - depth, Len(bid_items)),
             asks |-> islice(sorted_items(book.asks, FALSE), 0, depth)]

\* ---------------------------------------------------------------------
\* State
\* ---------------------------------------------------------------------
VARIABLES
    subscribers,            \* MessageBus.subscribers: message type -> handlers
    queue,                  \* MessageBus.queue
    cur,                    \* the message MessageBus.run is dispatching
    hidx,                   \* index of the next handler to call for cur
    busRunning,             \* the bus loop has not ended
    busWaiting,             \* run() is suspended in queue.get() on an empty queue
    cancelled,              \* the bus task has been cancelled
    nextId,                 \* number of messages published so far, plus one
    ran,                    \* handlers called so far for cur, with their outcome
    gotCount,               \* messages dequeued so far
    doneCount,              \* queue.task_done() calls so far
    books,                  \* MarketManager.market_states[M1]: (platform, outcome) -> Orderbook
    now,                    \* the wall clock, in seconds
    fed,                    \* events published by the two venue adapters so far
    is_trade_in_progress,   \* arbitrage_monitor._is_trade_in_progress
    dry_run,                \* executor._dry_run
    execPc,                 \* position of handle_execute_trade
    execCmd,                \* the command handle_execute_trade is working on
    batch_size,             \* TradeStorage.batch_size
    trade_results,          \* TradeStorage.trade_results
    storagePc,              \* position of handle_trade_results_received
    shutdown_event,         \* FletcherOrchestrator.shutdown_event
    lastAttempt,            \* summary of the last completed handle_execute_trade call
    aofInWindow,            \* ArbitrageOpportunityFound published since the last TradeAttemptCompleted was handled
    pendingUnwind,          \* a one-leg failure whose unwind order has not been placed yet
    unwindPc,               \* position of handle_trade_failed
    unwinds,                \* the unwind orders placed, in order
    bookOp,                 \* the last operation applied to the order book exercised on its own
    kalshiPc,               \* KalshiWebSocketClient.connect_forever: "connecting" or "listening"
    closed_with,            \* close code the adapter gave to the connection it closed last, 0 if none
    _last_seq,              \* KalshiWebSocketClient._last_seq[SHARED_SEQ_KEY]
    _books_state,           \* KalshiWebSocketClient._books_state: ticker -> side -> price -> size
    accepted,               \* raw messages that passed the sequence check on this subscription
    lastRaw,                \* the last step of the Kalshi adapter: raw message and what became of it
    rawCount,               \* raw messages received so far
    connects,               \* connections opened so far
    _lock,                  \* TradeStorage._lock: "free" or the task that holds it
    batch_to_flush,         \* _flush_batch's local batch_to_flush, for each task inside _flush_batch
    periodicPc,             \* position of the handle_periodic_flush task
    stopPc,                 \* position of TradeStorage.stop
    sink,                   \* the results the attempted-opportunities table has stored
    handled,                \* the results handle_trade_results_received has appended so far
    _running,               \* FletcherOrchestrator._running
    tasks,                  \* every asyncio task the orchestrator created: coroutine and state
    _tasks,                 \* FletcherOrchestrator._tasks: task name -> index in tasks, 0 if absent
    startPc,                \* position of FletcherOrchestrator._start
    monitorPc,              \* position of FletcherOrchestrator._shutdown_monitor
    resetPc,                \* position of _handle_successful_trade_and_reset
    resets,                 \* what each completed soft reset found and left
    called,                 \* the last call of a function exercised on its own: arguments and result
    loops                   \* the connect_forever task of each venue adapter exercised on its own

\* The state of the components that are also exercised on their own.
bookVars == <<bookOp>>
kalshiVars == <<kalshiPc, closed_with, _last_seq, _books_state, accepted, lastRaw, rawCount, connects>>
storageVars == <<_lock, batch_to_flush, periodicPc, stopPc, sink, handled>>
orchVars == <<_running, tasks, _tasks, startPc, monitorPc, resetPc, resets>>
calcVars == <<called>>
adapterVars == <<loops>>
extVars == <<bookVars, kalshiVars, storageVars, orchVars, calcVars, adapterVars>>

busVars == <<subscribers, queue, cur, hidx, busRunning, busWaiting, cancelled, nextId, ran,
            gotCount, doneCount>>
appVars == <<books, now, fed, is_trade_in_progress, dry_run, execPc, execCmd, batch_size,
             trade_results, storagePc, shutdown_event, lastAttempt, aofInWindow,
             pendingUnwind, unwindPc, unwinds, extVars>>
vars == <<subscribers, queue, cur, hidx, busRunning, busWaiting, cancelled, nextId, ran,
          gotCount, doneCount,
          books, now, fed, is_trade_in_progress, dry_run, execPc, execCmd, batch_size,
          trade_results, storagePc, shutdown_event, lastAttempt, aofInWindow,
          pendingUnwind, unwindPc, unwinds, extVars>>

\* ---------------------------------------------------------------------
\* MessageBus (app/message_bus.py)
\* ---------------------------------------------------------------------
Msg(id, type, body) == [id |-> id, type |-> type, body |-> body]
NoMsg == Msg(0, "None", <<>>)

\* A queue that hands out its newest message first.
queue_get_newest(q) == q[Len(q)]

\* asyncio.Queue.put / get: first in, first out.
queue_put(q, m) == Append(q, m)
queue_get(q) == Head(q)
queue_rest(q) == Tail(q)

\* publish(): the messages of a handler, stamped in publish order.
RECURSIVE PublishAll(_, _, _)
PublishAll(q, id, items) ==
    IF items = <<>> THEN q
    ELSE PublishAll(queue_put(q, Msg(id, Head(items)[1], Head(items)[2])), id + 1, Tail(items))

HandlersOf(type) == IF type \in DOMAIN subscribers THEN subscribers[type] ELSE <<>>

CurHandler ==
    IF cur.type # "None" /\ hidx <= Len(HandlersOf(cur.type))
    THEN HandlersOf(cur.type)[hidx] ELSE "None"

\* A loop that gives up on the handler after one that raised.
next_handler_break(i, outcome) == IF outcome = "raise" THEN i + 2 ELSE i + 1

\* The index of the handler called after the one at index i ended with
\* outcome ("return" or "raise"): the for loop goes on either way.
next_handler(i, outcome) == i + 1

\* run(): message = await self.queue.get()
BusGet ==
    /\ busRunning
    /\ cur.type = "None"
    /\ queue # <<>>
    /\ cur' = queue_get(queue)
    /\ queue' = queue_rest(queue)
    /\ hidx' = 1
    /\ ran' = <<>>
    /\ gotCount' = gotCount + 1
    /\ busWaiting' = FALSE
    /\ UNCHANGED <<subscribers, busRunning, cancelled, nextId, doneCount>>
    /\ UNCHANGED appVars

\* run(): self.queue.task_done(), after the last handler of the message.
\* The loop then calls queue.get() again, which suspends the bus task only
\* when the queue is empty.
BusTaskDone ==
    /\ busRunning
    /\ cur.type # "None"
    /\ hidx > Len(HandlersOf(cur.type))
    /\ cur' = NoMsg
    /\ hidx' = 1
    /\ ran' = <<>>
    /\ doneCount' = doneCount + 1
    /\ busWaiting' = (queue = <<>>)
    /\ UNCHANGED <<subscribers, queue, busRunning, cancelled, nextId, gotCount>>
    /\ UNCHANGED appVars

\* What every handler call leaves behind in the bus: the messages it
\* published are queued and the loop moves to the next handler.
HandlerEnds(name, outcome, items) ==
    /\ queue' = PublishAll(queue, nextId, items)
    /\ nextId' = nextId + Len(items)
    /\ hidx' = next_handler(hidx, outcome)
    /\ ran' = Append(ran, <<name, outcome>>)
    /\ UNCHANGED <<subscribers, cur, busRunning, busWaiting, cancelled, gotCount, doneCount>>

\* ---------------------------------------------------------------------
\* MarketManager (app/markets/manager.py)
\* ---------------------------------------------------------------------
\* register_market: one YES book for Kalshi, a YES and a NO book for Polymarket.
BookIds == {<<KALSHI, "YES">>, <<POLYMARKET, "YES">>, <<POLYMARKET, "NO">>}

\* market_states.get / get_outcomes_for_platform / get_book: the key of the
\* book an event addresses, or <<>> when one of the three lookups fails.
FindBook(market_id, platform, outcome) ==
    IF market_id = M1 /\ <<platform, outcome>> \in BookIds
    THEN <<platform, outcome>> ELSE <<>>

\* _emit_book_update
MarketBookUpdated(source_event) ==
    <<"MarketBookUpdated", [market_id |-> source_event.market_id, platform |-> source_event.platform]>>

\* A snapshot applied on top of the levels the book holds.
SnapshotApplied_without_clear(book, event, t) ==
    apply_updates(apply_updates(book, BUY, event.bids, t), SELL, event.asks, t)

\* The book a snapshot leaves: cleared, then bids and asks applied in order.
SnapshotApplied(book, event, t) ==
    apply_updates(apply_updates(clear(book, t), BUY, event.bids, t), SELL, event.asks, t)

_handle_snapshot ==
    /\ busRunning
    /\ CurHandler = "_handle_snapshot"
    /\ LET event == cur.body
           key == FindBook(event.market_id, event.platform, event.outcome)
       IN IF key = <<>>
          THEN /\ HandlerEnds("_handle_snapshot", "return", <<>>)
               /\ UNCHANGED books
          ELSE LET old_tob == get_top_of_book(books[key])
                   book == SnapshotApplied(books[key], event, now)
               IN /\ books' = [books EXCEPT ![key] = book]
                  /\ HandlerEnds("_handle_snapshot", "return",
                         IF old_tob # get_top_of_book(book)
                         THEN <<MarketBookUpdated(event)>> ELSE <<>>)
    /\ UNCHANGED <<now, fed, is_trade_in_progress, dry_run, extVars, execPc, execCmd, batch_size,
                   trade_results, storagePc, shutdown_event, lastAttempt, aofInWindow,
                   pendingUnwind, unwindPc, unwinds>>

_handle_delta ==
    /\ busRunning
    /\ CurHandler = "_handle_delta"
    /\ LET event == cur.body
           key == FindBook(event.market_id, event.platform, event.outcome)
       IN IF key = <<>>
          THEN /\ HandlerEnds("_handle_delta", "return", <<>>)
               /\ UNCHANGED books
          ELSE LET old_tob == get_top_of_book(books[key])
                   book == apply_update(books[key], event.side, event.price, event.size, now)
               IN /\ books' = [books EXCEPT ![key] = book]
                  /\ HandlerEnds("_handle_delta", "return",
                         IF old_tob # get_top_of_book(book)
                         THEN <<MarketBookUpdated(event)>> ELSE <<>>)
    /\ UNCHANGED <<now, fed, is_trade_in_progress, dry_run, extVars, execPc, execCmd, batch_size,
                   trade_results, storagePc, shutdown_event, lastAttempt, aofInWindow,
                   pendingUnwind, unwindPc, unwinds>>

\* ---------------------------------------------------------------------
\* Arbitrage monitor (app/strategies/arbitrage_monitor.py)
\* ---------------------------------------------------------------------
\* MarketState.get_price: the best bid (BUY) or best ask (SELL) price of a book.
get_price(bks, platform, outcome, side) ==
    IF <<platform, outcome>> \notin DOMAIN bks THEN NoPrice
    ELSE LET tob == get_top_of_book(bks[<<platform, outcome>>])
             price_level == IF side = BUY THEN tob[1] ELSE tob[2]
         IN IF price_level = NoLevel THEN NoPrice ELSE price_level[1]

\* MarketState.get_kalshi_derived_no_ask_price: 1 - best YES bid.
get_kalshi_derived_no_ask_price(bks) ==
    LET yes_bid_price == get_price(bks, KALSHI, "YES", BUY)
    IN IF yes_bid_price = NoPrice THEN NoPrice ELSE 100 - yes_bid_price

\* A fee that is rounded down to the cent.
_kalshi_fee_rounded_down(contracts, price) ==
    IF price <= 0 \/ price >= 100 THEN 0
    ELSE (KALSHI_FEE_RATE * contracts * price * (100 - price)) \div (10000 * SizeScale)

\* _kalshi_fee, in whole cents, for `contracts` size units at `price` cents:
\* rate * n * p * (1 - p), rounded up to the next cent.
_kalshi_fee(contracts, price) ==
    IF price <= 0 \/ price >= 100 THEN 0
    ELSE CeilDiv(KALSHI_FEE_RATE * contracts * price * (100 - price), 10000 * SizeScale)

\* A test that accepts a cost of exactly 1.0 - PROFITABILITY_BUFFER.
IsProfitable_at_buffer(cost, trade_size, kalshi_price) ==
    /\ trade_size > 0
    /\ cost * trade_size + _kalshi_fee(trade_size, kalshi_price) * SizeScale
         <= (100 - PROFITABILITY_BUFFER) * trade_size

\* cost + fee / trade_size < 1.0 - PROFITABILITY_BUFFER, with the division
\* cleared (trade_size > 0).
IsProfitable(cost, trade_size, kalshi_price) ==
    /\ trade_size > 0
    /\ cost * trade_size + _kalshi_fee(trade_size, kalshi_price) * SizeScale
         < (100 - PROFITABILITY_BUFFER) * trade_size

\* A gate that looks at the Kalshi book's age only when it is the older one.
IsStale_one_sided(book_a, book_b) == book_b.last_update - book_a.last_update > STALENESS_THRESHOLD

IsStale(book_a, book_b) == Abs(book_a.last_update - book_b.last_update) > STALENESS_THRESHOLD

NoOpportunity == [found |-> FALSE]

Opportunity(yes_platform, yes_price, no_platform, no_price, size, kalshi_price) ==
    [found |-> TRUE, market_id |-> M1,
     buy_yes_platform |-> yes_platform, buy_yes_price |-> yes_price,
     buy_no_platform |-> no_platform, buy_no_price |-> no_price,
     profit_margin |-> <<100 * size - (yes_price + no_price) * size
                           - _kalshi_fee(size, kalshi_price) * SizeScale, 100 * size>>,
     potential_trade_size |-> size,
     kalshi_ticker |-> market_config.kalshi_ticker,
     polymarket_yes_token_id |-> market_config.polymarket_yes_token_id,
     polymarket_no_token_id |-> market_config.polymarket_no_token_id]

SizeOf(level) == IF level = NoLevel THEN 0 ELSE level[2]

\* A check that tries direction 2 before direction 1.
_check_for_buy_both_arb_direction_2_first(bks) ==
    LET kalshi_yes_ask_price == get_price(bks, KALSHI, "YES", SELL)
        poly_no_ask_price == get_price(bks, POLYMARKET, "NO", SELL)
        poly_yes_ask_price == get_price(bks, POLYMARKET, "YES", SELL)
        kalshi_no_ask_price == get_kalshi_derived_no_ask_price(bks)
        kalshi_yes_tob == get_top_of_book(bks[<<KALSHI, "YES">>])
        poly_yes_tob == get_top_of_book(bks[<<POLYMARKET, "YES">>])
        poly_no_tob == get_top_of_book(bks[<<POLYMARKET, "NO">>])
        kalshi_yes_ask_size == SizeOf(kalshi_yes_tob[2])
        kalshi_yes_bid_size == SizeOf(kalshi_yes_tob[1])
        poly_yes_ask_size == SizeOf(poly_yes_tob[2])
        poly_no_ask_size == SizeOf(poly_no_tob[2])
        trade_size1 == Min(kalshi_yes_ask_size, poly_no_ask_size)
        trade_size2 == Min(poly_yes_ask_size, kalshi_yes_bid_size)
        opp1 == /\ kalshi_yes_ask_price # NoPrice /\ poly_no_ask_price # NoPrice
                /\ ~IsStale(bks[<<KALSHI, "YES">>], bks[<<POLYMARKET, "NO">>])
                /\ IsProfitable(kalshi_yes_ask_price + poly_no_ask_price, trade_size1,
                                kalshi_yes_ask_price)
        opp2 == /\ poly_yes_ask_price # NoPrice /\ kalshi_no_ask_price # NoPrice
                /\ ~IsStale(bks[<<KALSHI, "YES">>], bks[<<POLYMARKET, "YES">>])
                /\ IsProfitable(poly_yes_ask_price + kalshi_no_ask_price, trade_size2,
                                kalshi_no_ask_price)
    IN IF opp2
       THEN Opportunity(POLYMARKET, poly_yes_ask_price, KALSHI, kalshi_no_ask_price,
                        trade_size2, kalshi_no_ask_price)
       ELSE IF opp1
       THEN Opportunity(KALSHI, kalshi_yes_ask_price, POLYMARKET, poly_no_ask_price,
                        trade_size1, kalshi_yes_ask_price)
       ELSE NoOpportunity

_check_for_buy_both_arb(bks) ==
    LET kalshi_yes_ask_price == get_price(bks, KALSHI, "YES", SELL)
        poly_no_ask_price == get_price(bks, POLYMARKET, "NO", SELL)
        poly_yes_ask_price == get_price(bks, POLYMARKET, "YES", SELL)
        kalshi_no_ask_price == get_kalshi_derived_no_ask_price(bks)
        kalshi_yes_tob == get_top_of_book(bks[<<KALSHI, "YES">>])
        poly_yes_tob == get_top_of_book(bks[<<POLYMARKET, "YES">>])
        poly_no_tob == get_top_of_book(bks[<<POLYMARKET, "NO">>])
        kalshi_yes_ask_size == SizeOf(kalshi_yes_tob[2])
        kalshi_yes_bid_size == SizeOf(kalshi_yes_tob[1])
        poly_yes_ask_size == SizeOf(poly_yes_tob[2])
        poly_no_ask_size == SizeOf(poly_no_tob[2])
        trade_size1 == Min(kalshi_yes_ask_size, poly_no_ask_size)
        trade_size2 == Min(poly_yes_ask_size, kalshi_yes_bid_size)
        opp1 == /\ kalshi_yes_ask_price # NoPrice /\ poly_no_ask_price # NoPrice
                /\ ~IsStale(bks[<<KALSHI, "YES">>], bks[<<POLYMARKET, "NO">>])
                /\ IsProfitable(kalshi_yes_ask_price + poly_no_ask_price, trade_size1,
                                kalshi_yes_ask_price)
        opp2 == /\ poly_yes_ask_price # NoPrice /\ kalshi_no_ask_price # NoPrice
                /\ ~IsStale(bks[<<KALSHI, "YES">>], bks[<<POLYMARKET, "YES">>])
                /\ IsProfitable(poly_yes_ask_price + kalshi_no_ask_price, trade_size2,
                                kalshi_no_ask_price)
    IN IF opp1
       THEN Opportunity(KALSHI, kalshi_yes_ask_price, POLYMARKET, poly_no_ask_price,
                        trade_size1, kalshi_yes_ask_price)
       ELSE IF opp2
       THEN Opportunity(POLYMARKET, poly_yes_ask_price, KALSHI, kalshi_no_ask_price,
                        trade_size2, kalshi_no_ask_price)
       ELSE NoOpportunity

\* A monitor that checks the books whether or not a trade is in progress.
book_update_opportunity_unlocked(locked, market_id, bks) ==
    IF market_id # M1 THEN NoOpportunity ELSE _check_for_buy_both_arb(bks)

\* What handle_market_book_update decides: nothing while a trade is in
\* progress or for an unknown market, else the result of the check.
book_update_opportunity(locked, market_id, bks) ==
    IF locked THEN NoOpportunity
    ELSE IF market_id # M1 THEN NoOpportunity
    ELSE _check_for_buy_both_arb(bks)

handle_market_book_update ==
    /\ busRunning
    /\ CurHandler = "handle_market_book_update"
    /\ LET opportunity == book_update_opportunity(is_trade_in_progress, cur.body.market_id, books)
       IN IF opportunity.found
          THEN /\ is_trade_in_progress' = TRUE
               /\ aofInWindow' = aofInWindow + 1
               /\ HandlerEnds("handle_market_book_update", "return",
                      <<<<"ArbitrageOpportunityFound", [opportunity |-> opportunity]>>>>)
          ELSE /\ UNCHANGED <<is_trade_in_progress, aofInWindow>>
               /\ HandlerEnds("handle_market_book_update", "return", <<>>)
    /\ UNCHANGED <<books, now, fed, dry_run, extVars, execPc, execCmd, batch_size, trade_results,
                   storagePc, shutdown_event, lastAttempt, pendingUnwind, unwindPc, unwinds>>

handle_arbitrage_opportunity_found ==
    /\ busRunning
    /\ CurHandler = "handle_arbitrage_opportunity_found"
    /\ HandlerEnds("handle_arbitrage_opportunity_found", "return",
           <<<<"ExecuteTrade", [opportunity |-> cur.body.opportunity]>>>>)
    /\ UNCHANGED appVars

handle_trade_attempt_completed ==
    /\ busRunning
    /\ CurHandler = "handle_trade_attempt_completed"
    /\ is_trade_in_progress' = FALSE
    /\ aofInWindow' = 0
    /\ HandlerEnds("handle_trade_attempt_completed", "return", <<>>)
    /\ UNCHANGED <<books, now, fed, dry_run, extVars, execPc, execCmd, batch_size, trade_results,
                   storagePc, shutdown_event, lastAttempt, pendingUnwind, unwindPc, unwinds>>

\* ---------------------------------------------------------------------
\* Trade executor (app/services/execution/executor.py)
\* ---------------------------------------------------------------------
\* The attributes of the order models (app/domain/types.py).  Reading any
\* other attribute of a model instance raises AttributeError.
KalshiOrderFields ==
    {"action", "client_order_id", "created_time", "expiration_time", "no_price", "order_id",
     "side", "status", "ticker", "type", "user_id", "yes_price", "trade_size"}
PolymarketOrderFields ==
    {"errorMsg", "orderID", "takerAmount", "makingAmount", "status", "transactionsHashes",
     "success", "trade_size", "token_id"}

\* The value of an attribute: unset optional fields read as None.
Attr(obj, name) == IF name \in DOMAIN obj THEN obj[name] ELSE None

\* What a leg returns: an exception, or the order the gateway built
\* (TradeGateway.process_raw_kalshi_order / process_raw_polymarket_order).
LegException(message) == [exception |-> message]
IsException(result) == "exception" \in DOMAIN result

\* trade_size is a Decimal, held like every size in 1/SizeScale contracts:
\* Decimal(count) for Kalshi, the amount taken for Polymarket.
KalshiOrder(ticker, side, count) ==
    [order_id |-> "K-order", side |-> side, ticker |-> ticker, status |-> "executed",
     trade_size |-> count * SizeScale]
PolymarketOrder(token_id, size) ==
    [orderID |-> "P-order", status |-> "matched", success |-> TRUE,
     trade_size |-> size * SizeScale, token_id |-> token_id]

\* The dictionaries the legs return in dry-run mode, as the order models
\* read them.
KalshiDryRun(ticker) == [status |-> "dry_run", ticker |-> ticker]
PolymarketDryRun == [status |-> "dry_run"]

TradeDetails(platform, trade_size, order_id, kalshi_ticker, kalshi_side, polymarket_token_id) ==
    [platform |-> platform, trade_size |-> trade_size, order_id |-> order_id,
     kalshi_ticker |-> kalshi_ticker, kalshi_side |-> kalshi_side,
     polymarket_token_id |-> polymarket_token_id]

\* A result record that files each venue's error under the other venue.
ArbTradeResultReceived_swapped(category, opportunity, kalshi_order, polymarket_order, kalshi_error_message, polymarket_error) ==
    [category |-> category, opportunity |-> opportunity,
     kalshi_order |-> kalshi_order, polymarket_order |-> polymarket_order,
     kalshi_error_message |-> polymarket_error, polymarket_error |-> kalshi_error_message]

ArbTradeResultReceived(category, opportunity, kalshi_order, polymarket_order, kalshi_error_message, polymarket_error) ==
    [category |-> category, opportunity |-> opportunity,
     kalshi_order |-> kalshi_order, polymarket_order |-> polymarket_order,
     kalshi_error_message |-> kalshi_error_message, polymarket_error |-> polymarket_error]

StoreTradeResults(arb_trade_results) ==
    <<"StoreTradeResults", [arb_trade_results |-> arb_trade_results]>>

TradeFailed(failed_leg_platform, successful_leg, opportunity, error_message) ==
    <<"TradeFailed", [failed_leg_platform |-> failed_leg_platform,
                      successful_leg |-> successful_leg,
                      opportunity |-> opportunity, error_message |-> error_message]>>

TradeAttemptCompleted == <<"TradeAttemptCompleted", <<>>>>

\* trade_size = int(min(Decimal(_max_trade_size), potential_trade_size)), in contracts.
trade_size_of(opportunity) == Min(_max_trade_size, opportunity.potential_trade_size \div SizeScale)

\* handle_trade_response: the messages it publishes, in order, and whether it
\* returns or raises.
handle_trade_response(kalshi_result, polymarket_result, category, opportunity) ==
    LET is_kalshi_error == IsException(kalshi_result)
        is_polymarket_error == IsException(polymarket_result)
        arb_trade_result ==
            ArbTradeResultReceived(category, opportunity,
                IF is_kalshi_error THEN NoOrder ELSE kalshi_result,
                IF is_polymarket_error THEN NoOrder ELSE polymarket_result,
                IF is_kalshi_error THEN kalshi_result.exception ELSE NoError,
                IF is_polymarket_error THEN polymarket_result.exception ELSE NoError)
        store == <<StoreTradeResults(arb_trade_result)>>
    IN IF is_kalshi_error /\ ~is_polymarket_error
       THEN IF {"trade_size", "id", "token_id"} \subseteq PolymarketOrderFields
            THEN [outcome |-> "return",
                  published |-> store \o
                     <<TradeFailed(KALSHI,
                                   TradeDetails(POLYMARKET, Attr(polymarket_result, "trade_size"),
                                                Attr(polymarket_result, "id"), None, None,
                                                Attr(polymarket_result, "token_id")),
                                   opportunity, kalshi_result.exception),
                       TradeAttemptCompleted>>]
            ELSE [outcome |-> "raise", published |-> store]
       ELSE IF ~is_kalshi_error /\ is_polymarket_error
       THEN IF {"trade_size", "order_id", "ticker", "side"} \subseteq KalshiOrderFields
            THEN [outcome |-> "return",
                  published |-> store \o
                     <<TradeFailed(POLYMARKET,
                                   TradeDetails(KALSHI, Attr(kalshi_result, "trade_size"),
                                                Attr(kalshi_result, "order_id"),
                                                Attr(kalshi_result, "ticker"),
                                                Attr(kalshi_result, "side"), None),
                                   opportunity, polymarket_result.exception),
                       TradeAttemptCompleted>>]
            ELSE [outcome |-> "raise", published |-> store]
       ELSE [outcome |-> "return", published |-> store \o <<TradeAttemptCompleted>>]

NoCmd == [present |-> FALSE]

\* Which of the paths of an attempt the two leg results select.
PathOf(kalshi_result, polymarket_result) ==
    IF IsException(kalshi_result)
    THEN IF IsException(polymarket_result) THEN "both_fail" ELSE "kalshi_fails"
    ELSE IF IsException(polymarket_result) THEN "polymarket_fails" ELSE "both_succeed"

NoAttempt == [n |-> 0, path |-> "none", outcome |-> "none", published |-> <<>>,
              kalshi_result |-> NoOrder, polymarket_result |-> NoOrder, trade_size |-> 0]

\* handle_execute_trade up to the point where it awaits the two legs.
handle_execute_trade ==
    /\ busRunning
    /\ CurHandler = "handle_execute_trade"
    /\ execPc = "idle"
    /\ LET opportunity == cur.body.opportunity
           trade_size == trade_size_of(opportunity)
       IN IF trade_size <= 0
          THEN /\ HandlerEnds("handle_execute_trade", "return", <<TradeAttemptCompleted>>)
               /\ lastAttempt' = [n |-> lastAttempt.n + 1, path |-> "zero_size",
                                  outcome |-> "return",
                                  published |-> <<TradeAttemptCompleted>>,
                                  kalshi_result |-> NoOrder, polymarket_result |-> NoOrder,
                                  trade_size |-> trade_size]
               /\ UNCHANGED <<execPc, execCmd>>
          ELSE /\ execPc' = "legs"
               /\ execCmd' = [present |-> TRUE, opportunity |-> opportunity,
                              trade_size |-> trade_size]
               /\ UNCHANGED lastAttempt
               /\ UNCHANGED busVars
    /\ UNCHANGED <<books, now, fed, is_trade_in_progress, dry_run, extVars, batch_size, trade_results,
                   storagePc, shutdown_event, aofInWindow, pendingUnwind, unwindPc, unwinds>>

\* The results the two legs of the attempt can give.
KalshiLegResults(opportunity, trade_size) ==
    IF dry_run THEN {KalshiDryRun(opportunity.kalshi_ticker)}
    ELSE {KalshiOrder(opportunity.kalshi_ticker,
                      IF opportunity.buy_yes_platform = KALSHI THEN "yes" ELSE "no",
                      trade_size),
          LegException("kalshi rejected")}
PolymarketLegResults(opportunity, trade_size) ==
    IF dry_run THEN {PolymarketDryRun}
    ELSE {PolymarketOrder(IF opportunity.buy_yes_platform = KALSHI
                          THEN opportunity.polymarket_no_token_id
                          ELSE opportunity.polymarket_yes_token_id,
                          trade_size),
          LegException("polymarket rejected")}

\* asyncio.gather returns the two leg results and handle_trade_response runs.
gather_returns ==
    /\ busRunning
    /\ CurHandler = "handle_execute_trade"
    /\ execPc = "legs"
    /\ \E kalshi_result \in KalshiLegResults(execCmd.opportunity, execCmd.trade_size),
          polymarket_result \in PolymarketLegResults(execCmd.opportunity, execCmd.trade_size) :
          LET response == handle_trade_response(kalshi_result, polymarket_result, "buy both",
                                                execCmd.opportunity)
          IN /\ HandlerEnds("handle_execute_trade", response.outcome, response.published)
             /\ lastAttempt' = [n |-> lastAttempt.n + 1,
                                path |-> PathOf(kalshi_result, polymarket_result),
                                outcome |-> response.outcome,
                                published |-> response.published,
                                kalshi_result |-> kalshi_result,
                                polymarket_result |-> polymarket_result,
                                trade_size |-> execCmd.trade_size]
             /\ pendingUnwind' = (pendingUnwind \/
                    \E i \in 1..Len(response.published) : response.published[i][1] = "TradeFailed")
    /\ execPc' = "idle"
    /\ execCmd' = NoCmd
    /\ UNCHANGED <<books, now, fed, is_trade_in_progress, dry_run, extVars, batch_size, trade_results,
                   storagePc, shutdown_event, aofInWindow, unwindPc, unwinds>>

\* ---------------------------------------------------------------------
\* Unwinder (app/services/unwind/unwinder.py)
\* ---------------------------------------------------------------------
\* An unwind that sells on the venue of the leg that failed.
unwind_order_other_venue(successful_leg) ==
    IF successful_leg.platform = KALSHI
    THEN [platform |-> POLYMARKET, token_id |-> successful_leg.polymarket_token_id,
          size |-> successful_leg.trade_size, side |-> SELL]
    ELSE [platform |-> KALSHI, type |-> "market", ticker |-> successful_leg.kalshi_ticker,
          side |-> IF successful_leg.kalshi_side = "yes" THEN "yes" ELSE "no",
          count |-> successful_leg.trade_size \div SizeScale, action |-> "sell"]

\* The one gateway call _unwind_kalshi_trade / _unwind_polymarket_trade makes
\* for a successful leg: place_kalshi_market_order(ticker, side, count,
\* action="sell") with count = int(trade_size) in whole contracts (int
\* drops the fraction), or place_polymarket_market_order(token_id, size,
\* side=SELL) with size = float(trade_size), in 1/SizeScale contracts.
unwind_order(successful_leg) ==
    IF successful_leg.platform = KALSHI
    THEN [platform |-> KALSHI, type |-> "market", ticker |-> successful_leg.kalshi_ticker,
          side |-> IF successful_leg.kalshi_side = "yes" THEN "yes" ELSE "no",
          count |-> successful_leg.trade_size \div SizeScale, action |-> "sell"]
    ELSE [platform |-> POLYMARKET, token_id |-> successful_leg.polymarket_token_id,
          size |-> successful_leg.trade_size, side |-> SELL]

\* handle_trade_failed up to the point where it awaits the gateway.
handle_trade_failed ==
    /\ busRunning
    /\ CurHandler = "handle_trade_failed"
    /\ unwindPc = "idle"
    /\ unwindPc' = "placing"
    /\ UNCHANGED busVars
    /\ UNCHANGED <<books, now, fed, is_trade_in_progress, dry_run, extVars, execPc, execCmd, batch_size,
                   trade_results, storagePc, shutdown_event, lastAttempt, aofInWindow,
                   pendingUnwind, unwinds>>

\* The gateway call returns or raises; the exception is logged, nothing
\* else happens, and the handler returns.
unwind_order_returns ==
    /\ busRunning
    /\ CurHandler = "handle_trade_failed"
    /\ unwindPc = "placing"
    /\ \E raised \in BOOLEAN :
          unwinds' = Append(unwinds, [order |-> unwind_order(cur.body.successful_leg),
                                      raised |-> raised])
    /\ unwindPc' = "idle"
    /\ pendingUnwind' = FALSE
    /\ HandlerEnds("handle_trade_failed", "return", <<>>)
    /\ UNCHANGED <<books, now, fed, is_trade_in_progress, dry_run, extVars, execPc, execCmd, batch_size,
                   trade_results, storagePc, shutdown_event, lastAttempt, aofInWindow>>

\* ---------------------------------------------------------------------
\* TradeStorage (app/services/trade_storage.py)
\* ---------------------------------------------------------------------
\* The attributes of ArbTradeResultReceived (app/domain/events.py).
ArbTradeResultReceivedFields ==
    {"message_id", "timestamp", "category", "opportunity", "polymarket_order",
     "polymarket_error", "kalshi_order", "kalshi_error_message"}

\* _create_records raises as soon as it reads an attribute the result does
\* not have.
_create_records_raises(results) ==
    /\ results # <<>>
    /\ ~({"polymarket_error_message", "polymarket_order", "kalshi_error_message",
           "kalshi_order", "timestamp", "category", "trade_type", "opportunity"}
            \subseteq ArbTradeResultReceivedFields)

\* What the store of one batch comes to.  _store_trade_results builds the
\* records first; when that raises, the table is never called.  Otherwise
\* the table answers with a data list ("stored"), with something else
\* ("not_stored"), or the gateway swallows its own exception and returns
\* None, on which response.data raises ("raised").
StoreOutcomes(batch) ==
    IF _create_records_raises(batch) THEN {"raised"}
    ELSE {"stored", "not_stored", "raised"}

StorageFrame ==
    UNCHANGED <<books, now, fed, is_trade_in_progress, dry_run, bookVars, kalshiVars, orchVars, calcVars, adapterVars, execPc,
                execCmd, batch_size, shutdown_event, lastAttempt, aofInWindow, pendingUnwind,
                unwindPc, unwinds>>

\* handle_trade_results_received takes the lock and appends; when the batch
\* is full it calls _flush_batch, which copies and clears the buffer and
\* calls _store_trade_results, all under the lock.
handle_trade_results_received ==
    /\ busRunning
    /\ CurHandler = "handle_trade_results_received"
    /\ storagePc = "idle"
    /\ _lock = "free"
    /\ handled' = Append(handled, cur.body.arb_trade_results)
    /\ LET appended == Append(trade_results, cur.body.arb_trade_results)
       IN IF Len(appended) >= batch_size
          THEN /\ _lock' = "handler"
               /\ batch_to_flush' = [batch_to_flush EXCEPT !.handler = appended]
               /\ trade_results' = <<>>
               /\ storagePc' = "storing"
               /\ UNCHANGED busVars
          ELSE /\ trade_results' = appended
               /\ UNCHANGED <<_lock, batch_to_flush, storagePc>>
               /\ HandlerEnds("handle_trade_results_received", "return", <<>>)
    /\ UNCHANGED <<periodicPc, stopPc, sink>>
    /\ StorageFrame

\* The rest of _flush_batch inside the handler.  When the store raises, the
\* except branch waits for the lock its caller holds: the handler never
\* returns.
handler_flush_batch ==
    /\ busRunning
    /\ storagePc = "storing"
    /\ \E outcome \in StoreOutcomes(batch_to_flush.handler) :
          IF outcome = "raised"
          THEN /\ storagePc' = "deadlock"
               /\ UNCHANGED <<_lock, batch_to_flush, sink, busVars>>
          ELSE /\ sink' = IF outcome = "stored" THEN sink \o batch_to_flush.handler ELSE sink
               /\ batch_to_flush' = [batch_to_flush EXCEPT !.handler = <<>>]
               /\ _lock' = "free"
               /\ storagePc' = "idle"
               /\ HandlerEnds("handle_trade_results_received", "return", <<>>)
    /\ UNCHANGED <<trade_results, periodicPc, stopPc, handled>>
    /\ StorageFrame

\* ---------------------------------------------------------------------
\* Venue adapters and the clock
\* ---------------------------------------------------------------------
OrderBookDeltaReceived(platform, market_id, outcome, side, price, size) ==
    <<"OrderBookDeltaReceived",
      [platform |-> platform, market_id |-> market_id, outcome |-> outcome,
       side |-> side, price |-> price, size |-> size]>>

OrderBookSnapshotReceived(platform, market_id, outcome, bids, asks) ==
    <<"OrderBookSnapshotReceived",
      [platform |-> platform, market_id |-> market_id, outcome |-> outcome,
       bids |-> bids, asks |-> asks]>>

\* The level lists a snapshot can carry.
SnapshotLevels ==
    {<<>>, <<<<40, 2 * SizeScale>>>>, <<<<40, SizeScale>>, <<58, 2 * SizeScale>>>>}

\* The Kalshi adapter publishes every book as the YES outcome.
KalshiEvents ==
    {OrderBookDeltaReceived(KALSHI, M1, "YES", SELL, price, size) :
        price \in Prices, size \in KalshiSizes}
    \cup {OrderBookDeltaReceived(KALSHI, M1, "YES", BUY, 58, size) : size \in KalshiSizes}
    \cup {OrderBookSnapshotReceived(KALSHI, M1, "YES", <<>>, asks) : asks \in SnapshotLevels}

PolymarketEvents ==
    {OrderBookDeltaReceived(POLYMARKET, M1, outcome, SELL, 40, size) :
        outcome \in {"YES", "NO"}, size \in PolymarketSizes}
    \cup {OrderBookSnapshotReceived(POLYMARKET, M1, "NO", <<>>, <<<<40, 2 * SizeScale>>>>)}

\* The adapters publish events of configured markets only, and they run
\* only while the bus task is suspended: in queue.get() on an empty queue,
\* or inside a handler that awaits the network or a lock.
BusSuspended ==
    \/ busWaiting
    \/ execPc = "legs"
    \/ unwindPc = "placing"
    \/ storagePc = "deadlock"
    \/ (CurHandler = "handle_trade_results_received" /\ storagePc = "idle" /\ _lock # "free")
    \/ resetPc \in {"sleep_2", "cool_down"}

AdapterPublishes(event) ==
    /\ BusSuspended
    /\ fed < MaxFeed
    /\ fed' = fed + 1
    /\ queue' = queue_put(queue, Msg(nextId, event[1], event[2]))
    /\ nextId' = nextId + 1
    /\ UNCHANGED <<subscribers, cur, hidx, busRunning, busWaiting, cancelled, ran,
                   gotCount, doneCount>>
    /\ UNCHANGED <<books, now, is_trade_in_progress, dry_run, extVars, execPc, execCmd, batch_size,
                   trade_results, storagePc, shutdown_event, lastAttempt, aofInWindow,
                   pendingUnwind, unwindPc, unwinds>>

KalshiPublishes == \E event \in KalshiEvents : AdapterPublishes(event)
PolymarketPublishes == \E event \in PolymarketEvents : AdapterPublishes(event)

Tick ==
    /\ BusSuspended
    /\ now + TickStep <= MaxNow
    /\ now' = now + TickStep
    /\ UNCHANGED busVars
    /\ UNCHANGED <<books, fed, is_trade_in_progress, dry_run, extVars, execPc, execCmd, batch_size,
                   trade_results, storagePc, shutdown_event, lastAttempt, aofInWindow,
                   pendingUnwind, unwindPc, unwinds>>

\* ---------------------------------------------------------------------
\* KalshiWebSocketClient (app/ingestion/kalshi_wss_client.py).  Shadow
\* sizes are whole contracts and prices whole cents, as the venue sends
\* them.
\* ---------------------------------------------------------------------
market_map == [t \in {"K1", "K2"} |-> t]

EmptyShadow == [t \in DOMAIN market_map |-> [yes |-> EmptyLadder, no |-> EmptyLadder]]

NoRaw == [verdict |-> "none"]

LadderGet(l, price, default) == IF price \in DOMAIN l THEN l[price] ELSE default

\* A sequence check that accepts any sequence number above the last one.
_is_sequence_valid_monotone(data, last_seq) ==
    /\ "seq" \in DOMAIN data
    /\ data.seq > last_seq

_is_sequence_valid(data, last_seq) ==
    /\ "seq" \in DOMAIN data
    /\ \/ data.seq = last_seq + 1
       \/ (last_seq = 0 /\ data.seq = 1)

\* A state after subscribing that keeps the sequence number and the shadow.
_subscribe_orderbooks_keeps == [last_seq |-> _last_seq, books_state |-> _books_state]

\* The state _subscribe_orderbooks installs before it sends the request.
_subscribe_orderbooks == [last_seq |-> 0, books_state |-> EmptyShadow]

\* for price, size in levels: ladder[price] = size
RECURSIVE fill_levels(_, _)
fill_levels(l, levels) ==
    IF levels = <<>> THEN l
    ELSE fill_levels(LadderSet(l, Head(levels)[1], Head(levels)[2]), Tail(levels))

snapshot_books_state(shadow, msg) ==
    [shadow EXCEPT ![msg.market_ticker] =
        [yes |-> fill_levels(EmptyLadder, msg.yes), no |-> fill_levels(EmptyLadder, msg.no)]]

\* A snapshot event whose 'no' levels keep their NO price.
snapshot_event_no_price_kept(msg) ==
    OrderBookSnapshotReceived(KALSHI, market_map[msg.market_ticker], "YES",
        [i \in 1..Len(msg.yes) |-> <<msg.yes[i][1], msg.yes[i][2] * SizeScale>>],
        [i \in 1..Len(msg.no) |-> <<msg.no[i][1], msg.no[i][2] * SizeScale>>])

snapshot_event(msg) ==
    OrderBookSnapshotReceived(KALSHI, market_map[msg.market_ticker], "YES",
        [i \in 1..Len(msg.yes) |-> <<msg.yes[i][1], msg.yes[i][2] * SizeScale>>],
        [i \in 1..Len(msg.no) |-> <<100 - msg.no[i][1], msg.no[i][2] * SizeScale>>])

\* A new size that is the delta itself, not the running size.
delta_new_size_relative(shadow, msg) == msg.delta

delta_new_size(shadow, msg) ==
    LadderGet(shadow[msg.market_ticker][msg.side], msg.price, 0) + msg.delta

delta_books_state(shadow, msg, new_size) ==
    [shadow EXCEPT ![msg.market_ticker][msg.side] = LadderSet(@, msg.price, new_size)]

delta_event(msg, new_size) ==
    OrderBookDeltaReceived(KALSHI, market_map[msg.market_ticker], "YES",
        IF msg.side = "yes" THEN BUY ELSE SELL,
        IF msg.side = "yes" THEN msg.price ELSE 100 - msg.price,
        new_size * SizeScale)

\* The raw messages the venue sends: snapshots and deltas of the tracked
\* tickers and of one that is not tracked, with any sequence number or none.
KalshiLevelPairs ==
    {<<<<>>, <<>>>>, <<<<<<40, 1>>>>, <<<<58, 2>>>>>>, <<<<<<40, 2>>, <<58, 1>>>>, <<>>>>}
SnapshotMsgs ==
    {[market_ticker |-> t, yes |-> yn[1], no |-> yn[2]] :
        t \in DOMAIN market_map, yn \in KalshiLevelPairs}
DeltaMsgs ==
    {[market_ticker |-> "K1", price |-> 40, delta |-> d, side |-> sd] :
        d \in {-2, -1, 1}, sd \in {"yes", "no"}}
    \cup {[market_ticker |-> "K2", price |-> 58, delta |-> 1, side |-> "yes"],
          [market_ticker |-> "KX", price |-> 40, delta |-> 1, side |-> "yes"]}
RawBodies ==
    {[type |-> "orderbook_snapshot", msg |-> m] : m \in SnapshotMsgs}
    \cup {[type |-> "orderbook_delta", msg |-> m] : m \in DeltaMsgs}
WithSeq(b, n) == [type |-> b.type, msg |-> b.msg, seq |-> n]
RawMessages == RawBodies \cup {WithSeq(b, n) : b \in RawBodies, n \in 1..MaxSeq}

KalshiFrame ==
    UNCHANGED <<subscribers, cur, hidx, busRunning, busWaiting, cancelled, ran, gotCount,
                doneCount, bookVars, storageVars, orchVars, calcVars, adapterVars, books, now, fed, is_trade_in_progress, dry_run, execPc,
                execCmd, batch_size, trade_results, storagePc, shutdown_event, lastAttempt,
                aofInWindow, pendingUnwind, unwindPc, unwinds>>

\* connect_forever opens a connection; _on_open subscribes, and
\* _subscribe_orderbooks resets the sequence number and the shadow books.
connect_forever ==
    /\ kalshiPc = "connecting"
    /\ connects < MaxConnects
    /\ connects' = connects + 1
    /\ _last_seq' = _subscribe_orderbooks.last_seq
    /\ _books_state' = _subscribe_orderbooks.books_state
    /\ accepted' = <<>>
    /\ kalshiPc' = "listening"
    /\ lastRaw' = [verdict |-> "subscribed"]
    /\ UNCHANGED <<closed_with, rawCount, queue, nextId>>
    /\ KalshiFrame

\* The venue or the network ends the connection: ConnectionClosed leaves
\* _listen, and connect_forever goes round its loop.
connection_closed ==
    /\ kalshiPc = "listening"
    /\ kalshiPc' = "connecting"
    /\ closed_with' = 0
    /\ lastRaw' = [verdict |-> "dropped"]
    /\ UNCHANGED <<_last_seq, _books_state, accepted, rawCount, connects, queue, nextId>>
    /\ KalshiFrame

\* One round of the loop of _listen on a well-formed raw message.  After a
\* sequence gap _request_resubscribe closes the socket with code 4000 and
\* the iteration over the closed socket ends _listen.
_listen ==
    /\ kalshiPc = "listening"
    /\ rawCount < MaxRaw
    /\ rawCount' = rawCount + 1
    /\ UNCHANGED connects
    /\ \E data \in RawMessages :
          LET msg == data.msg
          IN IF msg.market_ticker \notin DOMAIN market_map
             THEN /\ lastRaw' = [verdict |-> "ignored", data |-> data]
                  /\ UNCHANGED <<kalshiPc, closed_with, _last_seq, _books_state, accepted,
                                 queue, nextId>>
             ELSE IF ~_is_sequence_valid(data, _last_seq)
             THEN /\ lastRaw' = [verdict |-> "gap", data |-> data]
                  /\ closed_with' = SEQ_GAP_CLOSE_CODE
                  /\ kalshiPc' = "connecting"
                  /\ UNCHANGED <<_last_seq, _books_state, accepted, queue, nextId>>
             ELSE /\ _last_seq' = data.seq
                  /\ accepted' = Append(accepted, data)
                  /\ UNCHANGED <<kalshiPc, closed_with>>
                  /\ IF data.type = "orderbook_snapshot"
                     THEN LET event == snapshot_event(msg)
                          IN /\ _books_state' = snapshot_books_state(_books_state, msg)
                             /\ queue' = queue_put(queue, Msg(nextId, event[1], event[2]))
                             /\ nextId' = nextId + 1
                             /\ lastRaw' = [verdict |-> "snapshot", data |-> data]
                     ELSE LET new_size == delta_new_size(_books_state, msg)
                              event == delta_event(msg, new_size)
                          IN /\ _books_state' = delta_books_state(_books_state, msg, new_size)
                             /\ IF new_size < 0
                                THEN /\ lastRaw' = [verdict |-> "negative", data |-> data]
                                     /\ UNCHANGED <<queue, nextId>>
                                ELSE /\ queue' = queue_put(queue, Msg(nextId, event[1], event[2]))
                                     /\ nextId' = nextId + 1
                                     /\ lastRaw' = [verdict |-> "delta", data |-> data]
    /\ KalshiFrame

\* ---------------------------------------------------------------------
\* The wired application (app/bootstrap.py)
\* ---------------------------------------------------------------------
Wiring ==
    [t \in {"OrderBookSnapshotReceived", "OrderBookDeltaReceived", "MarketBookUpdated",
            "ArbitrageOpportunityFound", "ExecuteTrade", "StoreTradeResults", "TradeFailed",
            "TradeAttemptCompleted", "ArbitrageTradeSuccessful"} |->
        CASE t = "OrderBookSnapshotReceived" -> <<"_handle_snapshot", "_handle_snapshot">>
          [] t = "OrderBookDeltaReceived" -> <<"_handle_delta", "_handle_delta">>
          [] t = "MarketBookUpdated" -> <<"handle_market_book_update">>
          [] t = "ArbitrageOpportunityFound" -> <<"handle_arbitrage_opportunity_found">>
          [] t = "ExecuteTrade" -> <<"handle_execute_trade">>
          [] t = "StoreTradeResults" -> <<"handle_trade_results_received">>
          [] t = "TradeFailed" -> <<"handle_trade_failed">>
          [] t = "TradeAttemptCompleted" -> <<"handle_trade_attempt_completed">>
          [] t = "ArbitrageTradeSuccessful" -> <<"_handle_successful_trade_and_reset">>]

InitBusState ==
    /\ queue = <<>>
    /\ cur = NoMsg
    /\ hidx = 1
    /\ busRunning = TRUE
    /\ busWaiting = TRUE
    /\ cancelled = FALSE
    /\ nextId = 1
    /\ ran = <<>>
    /\ gotCount = 0
    /\ doneCount = 0

InitComponents ==
    /\ bookOp = NoOp
    /\ kalshiPc = "connecting"
    /\ closed_with = 0
    /\ _last_seq = 0
    /\ _books_state = EmptyShadow
    /\ accepted = <<>>
    /\ lastRaw = NoRaw
    /\ rawCount = 0
    /\ connects = 0
    /\ _lock = "free"
    /\ batch_to_flush = [task \in {"handler", "periodic", "stop"} |-> <<>>]
    /\ periodicPc = "not_started"
    /\ stopPc = "not_called"
    /\ sink = <<>>
    /\ handled = <<>>
    /\ _running = FALSE
    /\ tasks = <<>>
    /\ _tasks = NoTasks
    /\ startPc = "not_started"
    /\ monitorPc = "not_started"
    /\ resetPc = "idle"
    /\ resets = <<>>
    /\ called = NoOp

InitExtState ==
    /\ InitComponents
    /\ loops = NoLoops

InitServices ==
    /\ books = [k \in BookIds |-> NewOrderbook(0)]
    /\ now = 0
    /\ fed = 0
    /\ is_trade_in_progress = FALSE
    /\ execPc = "idle"
    /\ execCmd = NoCmd
    /\ trade_results = <<>>
    /\ storagePc = "idle"
    /\ shutdown_event = FALSE
    /\ lastAttempt = NoAttempt
    /\ aofInWindow = 0
    /\ pendingUnwind = FALSE
    /\ unwindPc = "idle"
    /\ unwinds = <<>>

InitAppState ==
    /\ InitServices
    /\ InitExtState

Init ==
    /\ subscribers = Wiring
    /\ InitBusState
    /\ InitAppState
    /\ dry_run \in BOOLEAN
    /\ batch_size \in 1..MaxBatchSize

Next ==
    \/ BusGet
    \/ BusTaskDone
    \/ _handle_snapshot
    \/ _handle_delta
    \/ handle_market_book_update
    \/ handle_arbitrage_opportunity_found
    \/ handle_execute_trade
    \/ gather_returns
    \/ handle_trade_results_received
    \/ handler_flush_batch
    \/ handle_trade_failed
    \/ unwind_order_returns
    \/ handle_trade_attempt_completed
    \/ KalshiPublishes
    \/ PolymarketPublishes
    \/ Tick

Spec == Init /\ [][Next]_vars

\* ---------------------------------------------------------------------
\* The bus on its own: any wiring, handlers that return or raise and may
\* publish, publishers outside the loop, and cancellation of the bus task.
\* ---------------------------------------------------------------------
BusTypes == {"T1", "T2", "T3"}
BusHandlers == {"hA", "hB", "hC"}

\* T1 has two subscribers, T2 one, T3 none.
BusWiring == [t \in {"T1", "T2"} |-> IF t = "T1" THEN <<"hA", "hB">> ELSE <<"hC">>]

\* What one handler call may publish before it ends.
HandlerPublishes == {<<>>, <<<<"T1", <<>>>>>>, <<<<"T2", <<>>>>, <<"T3", <<>>>>>>}

InitBus ==
    /\ subscribers = BusWiring
    /\ InitBusState
    /\ InitAppState
    /\ dry_run = FALSE
    /\ batch_size = 1

\* await handler(message): the handler returns or raises.
handler_runs ==
    /\ busRunning
    /\ CurHandler \in BusHandlers
    /\ \E outcome \in {"return", "raise"}, items \in HandlerPublishes :
          /\ nextId + Len(items) - 1 <= MaxBusMsgs
          /\ HandlerEnds(CurHandler, outcome, items)
    /\ UNCHANGED appVars

\* MessageBus.publish called from outside the loop.
publish ==
    /\ nextId <= MaxBusMsgs
    /\ \E t \in BusTypes : queue' = queue_put(queue, Msg(nextId, t, <<>>))
    /\ nextId' = nextId + 1
    /\ UNCHANGED <<subscribers, cur, hidx, busRunning, busWaiting, cancelled, ran,
                   gotCount, doneCount>>
    /\ UNCHANGED appVars

\* The bus task is cancelled: CancelledError reaches the outer except, break.
BusCancel ==
    /\ busRunning
    /\ busRunning' = FALSE
    /\ cancelled' = TRUE
    /\ UNCHANGED <<subscribers, queue, cur, hidx, busWaiting, nextId, ran, gotCount, doneCount>>
    /\ UNCHANGED appVars

NextBus ==
    \/ BusGet
    \/ BusTaskDone
    \/ handler_runs
    \/ publish
    \/ BusCancel

SpecBus == InitBus /\ [][NextBus]_vars

\* ---------------------------------------------------------------------
\* One Orderbook on its own: any sequence of apply_update, snapshot
\* application and clear, with sizes that include 0 and snapshots that
\* carry zero-size levels and repeated prices.
\* ---------------------------------------------------------------------
BookUnderTest == <<KALSHI, "YES">>
BookSizes == {0, 1, SizeScale}
BookLevels ==
    {<<>>, <<<<40, 0>>>>, <<<<40, SizeScale>>, <<58, 0>>>>, <<<<58, 1>>, <<58, 0>>>>,
     <<<<40, 0>>, <<40, 1>>>>, <<<<40, 1>>, <<58, SizeScale>>>>}

LadderOf(book, side) == IF side = BUY THEN book.bids ELSE book.asks

BookFrame ==
    UNCHANGED <<busVars, kalshiVars, storageVars, orchVars, calcVars, adapterVars, now, fed, is_trade_in_progress, dry_run, execPc, execCmd, batch_size,
                trade_results, storagePc, shutdown_event, lastAttempt, aofInWindow,
                pendingUnwind, unwindPc, unwinds>>

\* Orderbook.apply_update called with any side, price and size.
book_apply_update ==
    \E side \in {BUY, SELL}, price \in Prices, size \in BookSizes :
        /\ books' = [books EXCEPT ![BookUnderTest] = apply_update(@, side, price, size, now)]
        /\ bookOp' = [op |-> "apply_update", side |-> side, price |-> price, size |-> size,
                      had |-> price \in DOMAIN LadderOf(books[BookUnderTest], side)]
        /\ BookFrame

\* The snapshot application of MarketManager._handle_snapshot.
book_snapshot ==
    \E bids \in BookLevels, asks \in BookLevels :
        /\ books' = [books EXCEPT
                        ![BookUnderTest] = SnapshotApplied(@, [bids |-> bids, asks |-> asks], now)]
        /\ bookOp' = [op |-> "snapshot", bids |-> bids, asks |-> asks]
        /\ BookFrame

\* Orderbook.clear
book_clear ==
    /\ books' = [books EXCEPT ![BookUnderTest] = clear(@, now)]
    /\ bookOp' = [op |-> "clear"]
    /\ BookFrame

\* Orderbook.get_book_snapshot called with a depth of 1 or more.
book_get_book_snapshot ==
    \E depth \in 1..MaxDepth :
        /\ bookOp' = [op |-> "get_book_snapshot", depth |-> depth,
                      result |-> get_book_snapshot(books[BookUnderTest], depth)]
        /\ UNCHANGED books
        /\ BookFrame

NextBook ==
    \/ book_apply_update
    \/ book_snapshot
    \/ book_clear
    \/ book_get_book_snapshot

SpecBook == InitBus /\ [][NextBook]_vars

\* ---------------------------------------------------------------------
\* The Kalshi adapter on its own, publishing to a bus that nobody drains.
\* ---------------------------------------------------------------------
InitKalshi ==
    /\ subscribers = Wiring
    /\ InitBusState
    /\ InitAppState
    /\ dry_run = FALSE
    /\ batch_size = 1

NextKalshi ==
    \/ connect_forever
    \/ connection_closed
    \/ _listen

SpecKalshi == InitKalshi /\ [][NextKalshi]_vars

\* ---------------------------------------------------------------------
\* TradeStorage on its own: the bus dispatching StoreTradeResults commands
\* to the handler, the periodic flush task and stop().  The other tasks
\* run only while the bus task is suspended.
\* ---------------------------------------------------------------------
StorageRecords == <<"r1", "r2", "r3", "r4">>

\* The result of one trade attempt, told apart by its category.
StorageRecord(n) ==
    ArbTradeResultReceived(StorageRecords[n], NoOpportunity, NoOrder, NoOrder, NoError, NoError)

\* The executor publishes the StoreTradeResults of one more attempt.
store_trade_results_published ==
    /\ BusSuspended
    /\ nextId <= MaxRecords
    /\ LET command == StoreTradeResults(StorageRecord(nextId))
       IN queue' = queue_put(queue, Msg(nextId, command[1], command[2]))
    /\ nextId' = nextId + 1
    /\ UNCHANGED <<subscribers, cur, hidx, busRunning, busWaiting, cancelled, ran,
                   gotCount, doneCount>>
    /\ UNCHANGED <<trade_results, storagePc, storageVars>>
    /\ StorageFrame

\* _flush_batch called without the lock, from the periodic task's
\* CancelledError branch and from stop().  Nothing else runs between the
\* copy and the except branch; there the batch goes back into the buffer
\* if the lock is free, and otherwise the caller waits for the lock with
\* the batch in hand.
_flush_batch_unlocked(results, stored, outcome, lock) ==
    IF results = <<>>
    THEN [trade_results |-> results, sink |-> stored, held |-> <<>>, blocked |-> FALSE]
    ELSE IF outcome = "stored"
    THEN [trade_results |-> <<>>, sink |-> stored \o results, held |-> <<>>, blocked |-> FALSE]
    ELSE IF outcome = "not_stored"
    THEN [trade_results |-> <<>>, sink |-> stored, held |-> <<>>, blocked |-> FALSE]
    ELSE IF lock = "free"
    THEN [trade_results |-> <<>> \o results, sink |-> stored, held |-> <<>>, blocked |-> FALSE]
    ELSE [trade_results |-> <<>>, sink |-> stored, held |-> results, blocked |-> TRUE]

\* TradeStorage.start creates the periodic flush task.
start ==
    /\ periodicPc = "not_started"
    /\ stopPc = "not_called"
    /\ periodicPc' = "sleeping"
    /\ UNCHANGED <<busVars, trade_results, storagePc, _lock, batch_to_flush, stopPc, sink, handled>>
    /\ StorageFrame

\* handle_periodic_flush wakes from its sleep, takes the lock and, with a
\* non-empty buffer, calls _flush_batch under the lock.
periodic_wakes ==
    /\ BusSuspended
    /\ periodicPc = "sleeping"
    /\ IF _lock # "free"
       THEN /\ periodicPc' = "waiting_lock"
            /\ UNCHANGED <<trade_results, _lock, batch_to_flush>>
       ELSE IF trade_results = <<>>
       THEN UNCHANGED <<periodicPc, trade_results, _lock, batch_to_flush>>
       ELSE /\ _lock' = "periodic"
            /\ batch_to_flush' = [batch_to_flush EXCEPT !.periodic = trade_results]
            /\ trade_results' = <<>>
            /\ periodicPc' = "storing"
    /\ UNCHANGED <<busVars, storagePc, stopPc, sink, handled>>
    /\ StorageFrame

\* The rest of _flush_batch inside the periodic task: when the store raises,
\* the except branch waits for the lock the task itself holds.
periodic_flush_batch ==
    /\ periodicPc = "storing"
    /\ \E outcome \in StoreOutcomes(batch_to_flush.periodic) :
          IF outcome = "raised"
          THEN /\ periodicPc' = "deadlock"
               /\ UNCHANGED <<_lock, batch_to_flush, sink>>
          ELSE /\ sink' = IF outcome = "stored" THEN sink \o batch_to_flush.periodic ELSE sink
               /\ batch_to_flush' = [batch_to_flush EXCEPT !.periodic = <<>>]
               /\ _lock' = "free"
               /\ periodicPc' = "sleeping"
    /\ UNCHANGED <<busVars, trade_results, storagePc, stopPc, handled>>
    /\ StorageFrame

\* TradeStorage.stop is called.  With a periodic task it cancels the task
\* and awaits it; without one it goes on to _flush_batch, without the lock.
stop ==
    /\ BusSuspended
    /\ stopPc = "not_called"
    /\ periodicPc # "storing"
    /\ IF periodicPc = "not_started"
       THEN \E outcome \in StoreOutcomes(trade_results) :
               LET flushed == _flush_batch_unlocked(trade_results, sink, outcome, _lock)
               IN /\ trade_results' = flushed.trade_results
                  /\ sink' = flushed.sink
                  /\ batch_to_flush' = [batch_to_flush EXCEPT !.stop = flushed.held]
                  /\ stopPc' = IF flushed.blocked THEN "blocked" ELSE "stopped"
       ELSE /\ stopPc' = "awaiting_task"
            /\ UNCHANGED <<trade_results, sink, batch_to_flush>>
    /\ UNCHANGED <<busVars, storagePc, _lock, periodicPc, handled>>
    /\ StorageFrame

\* CancelledError reaches the periodic task where it is suspended.  Raised
\* inside _flush_batch it leaves the `async with` of the task, which frees
\* the lock, and the batch the task held is gone.  The except branch then
\* calls _flush_batch without the lock and the task ends.
periodic_cancelled ==
    /\ BusSuspended
    /\ stopPc = "awaiting_task"
    /\ periodicPc \in {"sleeping", "waiting_lock", "deadlock"}
    /\ \E outcome \in StoreOutcomes(trade_results) :
          LET lock == IF periodicPc = "deadlock" THEN "free" ELSE _lock
              flushed == _flush_batch_unlocked(trade_results, sink, outcome, lock)
          IN /\ _lock' = lock
             /\ trade_results' = flushed.trade_results
             /\ sink' = flushed.sink
             /\ batch_to_flush' = [batch_to_flush EXCEPT !.periodic = flushed.held]
             /\ periodicPc' = IF flushed.blocked THEN "blocked" ELSE "done"
    /\ UNCHANGED <<busVars, storagePc, stopPc, handled>>
    /\ StorageFrame

\* stop, once the periodic task has ended: _flush_batch without the lock.
stop_flush_batch ==
    /\ BusSuspended
    /\ stopPc = "awaiting_task"
    /\ periodicPc = "done"
    /\ \E outcome \in StoreOutcomes(trade_results) :
          LET flushed == _flush_batch_unlocked(trade_results, sink, outcome, _lock)
          IN /\ trade_results' = flushed.trade_results
             /\ sink' = flushed.sink
             /\ batch_to_flush' = [batch_to_flush EXCEPT !.stop = flushed.held]
             /\ stopPc' = IF flushed.blocked THEN "blocked" ELSE "stopped"
    /\ UNCHANGED <<busVars, storagePc, _lock, periodicPc, handled>>
    /\ StorageFrame

InitStorage ==
    /\ subscribers = Wiring
    /\ InitBusState
    /\ InitAppState
    /\ dry_run = FALSE
    /\ batch_size \in 1..MaxBatchSize

NextStorage ==
    \/ BusGet
    \/ BusTaskDone
    \/ store_trade_results_published
    \/ handle_trade_results_received
    \/ handler_flush_batch
    \/ start
    \/ periodic_wakes
    \/ periodic_flush_batch
    \/ stop
    \/ periodic_cancelled
    \/ stop_flush_batch

SpecStorage == InitStorage /\ [][NextStorage]_vars

\* ---------------------------------------------------------------------
\* The unwinder on its own: TradeFailed events of both kinds the executor
\* builds reach handle_trade_failed through the bus.
\* ---------------------------------------------------------------------
\* The successful legs a TradeFailed can carry.  A Kalshi leg's trade size
\* is Decimal(count), a whole number of contracts; a Polymarket leg's is
\* the amount taken, which need not be whole.
SuccessfulLegs ==
    {TradeDetails(KALSHI, count * SizeScale, "K-order", "K1", side, None) :
        count \in 1..MaxUnwindSize, side \in {"yes", "no"}}
    \cup
    {TradeDetails(POLYMARKET, size, "P-order", None, None, token_id) :
        size \in 1..(MaxUnwindSize * SizeScale), token_id \in {"Y1", "N1"}}

\* The executor publishes a TradeFailed for a leg that went through.
trade_failed_published ==
    /\ BusSuspended
    /\ nextId <= MaxFailed
    /\ \E successful_leg \in SuccessfulLegs :
          LET event == TradeFailed(IF successful_leg.platform = KALSHI THEN POLYMARKET
                                                                      ELSE KALSHI,
                                   successful_leg, NoOpportunity, "leg failed")
          IN queue' = queue_put(queue, Msg(nextId, event[1], event[2]))
    /\ nextId' = nextId + 1
    /\ UNCHANGED <<subscribers, cur, hidx, busRunning, busWaiting, cancelled, ran,
                   gotCount, doneCount>>
    /\ UNCHANGED <<books, now, fed, is_trade_in_progress, dry_run, extVars, execPc, execCmd,
                   batch_size, trade_results, storagePc, shutdown_event, lastAttempt,
                   aofInWindow, pendingUnwind, unwindPc, unwinds>>

InitUnwind ==
    /\ subscribers = Wiring
    /\ InitBusState
    /\ InitAppState
    /\ dry_run = FALSE
    /\ batch_size = 1

NextUnwind ==
    \/ BusGet
    \/ BusTaskDone
    \/ trade_failed_published
    \/ handle_trade_failed
    \/ unwind_order_returns

SpecUnwind == InitUnwind /\ [][NextUnwind]_vars

\* ---------------------------------------------------------------------
\* FletcherOrchestrator (app/orchestration/fletcher_orchestrator.py): the
\* tasks it creates, the soft reset and the shutdown.  A task is "pending"
\* until it ends or is cancelled; cancel() marks it "must_cancel" and the
\* CancelledError is raised in it when it next runs.  A venue adapter that
\* is cancelled while connected passes through its finally block, which
\* sleeps ("finally"), before the CancelledError ends it.
\* ---------------------------------------------------------------------
Adapters == {"kalshi_connect", "poly_connect"}

\* asyncio.create_task
create_task(ts, coro) == Append(ts, [coro |-> coro, state |-> "pending"])

\* Task.done()
done(task) == task.state \in {"done", "cancelled"}

\* Task.cancel()
cancel(task) ==
    IF task.state = "pending" THEN [task EXCEPT !.state = "must_cancel"]
    ELSE IF task.state = "finally" THEN [task EXCEPT !.state = "must_cancel_finally"]
    ELSE task

\* No cancel() at all: every task goes on as it was.
cancel_named_cancels_nothing(ts, registry, names) == ts

\* cancel() on the tasks registered under the given names that are not done.
cancel_named(ts, registry, names) ==
    [i \in DOMAIN ts |->
        IF (\E name \in names : registry[name] = i) /\ ~done(ts[i]) THEN cancel(ts[i]) ELSE ts[i]]

\* A reset that clears the Polymarket books only.
reset_polymarket_only(bs, t) ==
    [key \in DOMAIN bs |-> IF key[1] = POLYMARKET THEN clear(bs[key], t) ELSE bs[key]]

\* MarketManager.reset: MarketState.reset, MarketOutcomes.reset and
\* Orderbook.clear for every platform and outcome of every market.
reset(bs, t) == [key \in DOMAIN bs |-> clear(bs[key], t)]

\* A stop() that cancels every task but the bus task.
orchestrator_stop_spares_the_bus(running, ts, registry) ==
    IF ~running THEN [_running |-> FALSE, tasks |-> ts, cancelled_any |-> FALSE]
    ELSE [_running |-> FALSE, tasks |-> cancel_named(ts, registry, TaskNames \ {"message_bus"}),
          cancelled_any |-> TRUE]

\* FletcherOrchestrator.stop up to its await: nothing when not running,
\* else _running = False and cancel() on every task of _tasks not done.
orchestrator_stop(running, ts, registry) ==
    IF ~running THEN [_running |-> FALSE, tasks |-> ts, cancelled_any |-> FALSE]
    ELSE [_running |-> FALSE, tasks |-> cancel_named(ts, registry, TaskNames),
          cancelled_any |-> TRUE]

\* The tasks _start awaits in its gather.
tasks_to_await == TaskNames \ Adapters

\* The other tasks run only while the bus task is suspended or has ended.
OthersMayRun == BusSuspended \/ ~busRunning

\* Variables no orchestrator step changes.
orchRest == <<now, fed, is_trade_in_progress, dry_run, bookVars, kalshiVars, calcVars, adapterVars, execPc, execCmd,
              batch_size, lastAttempt, aofInWindow, pendingUnwind, unwindPc, unwinds>>

\* The tasks become ts.  A bus task that cancel() reached executes nothing
\* more: the CancelledError is raised at the await it is suspended in, the
\* handler it is in is abandoned and run() breaks out of its loop.
TasksBecome(ts) ==
    /\ tasks' = ts
    /\ IF /\ _tasks["message_bus"] # 0
          /\ tasks[_tasks["message_bus"]].state = "pending"
          /\ ts[_tasks["message_bus"]].state = "must_cancel"
       THEN /\ busRunning' = FALSE
            /\ cancelled' = TRUE
            /\ resetPc' = IF resetPc = "idle" THEN "idle" ELSE "cancelled"
       ELSE UNCHANGED <<busRunning, cancelled, resetPc>>
    /\ UNCHANGED <<subscribers, queue, cur, hidx, busWaiting, nextId, ran, gotCount, doneCount>>

\* _start: creates the five tasks (no diagnostic printer) and awaits the
\* gather of all but the two adapters.
_start ==
    /\ startPc = "not_started"
    /\ ~_running
    /\ _running' = TRUE
    /\ tasks' = create_task(create_task(create_task(create_task(create_task(tasks,
                    "kalshi_connect"), "poly_connect"), "message_bus"), "flush_task"),
                    "shutdown_monitor")
    /\ _tasks' = [name \in TaskNames |->
                    Len(tasks) + (CASE name = "kalshi_connect" -> 1
                                    [] name = "poly_connect" -> 2
                                    [] name = "message_bus" -> 3
                                    [] name = "flush_task" -> 4
                                    [] name = "shutdown_monitor" -> 5)]
    /\ startPc' = "gathering"
    /\ monitorPc' = "waiting"
    /\ UNCHANGED <<busVars, books, trade_results, storagePc, shutdown_event, storageVars,
                   resetPc, resets, orchRest>>

\* The Kalshi adapter task, connected, publishes the snapshot of its
\* subscription: one for the first task and one after each restart.
kalshi_task_publishes ==
    /\ _tasks["kalshi_connect"] # 0
    /\ tasks[_tasks["kalshi_connect"]].state = "pending"
    /\ busRunning
    /\ fed <= Len(resets)
    /\ fed <= MaxResets
    /\ \E asks \in SnapshotLevels :
          AdapterPublishes(OrderBookSnapshotReceived(KALSHI, M1, "YES", <<>>, asks))

\* The executor publishes the result of one more attempt.
orchestrator_store_trade_results ==
    /\ startPc = "gathering"
    /\ busRunning
    /\ Len(handled) + Len(SelectSeq(queue, LAMBDA m : m.type = "StoreTradeResults"))
          + (IF cur.type = "StoreTradeResults" THEN 1 ELSE 0) < MaxStored
    /\ store_trade_results_published

\* The flush_task task: TradeStorage.start creates the periodic flush task
\* and returns.
flush_task_runs ==
    /\ OthersMayRun
    /\ _tasks["flush_task"] # 0
    /\ tasks[_tasks["flush_task"]].state = "pending"
    /\ periodicPc' = IF periodicPc = "not_started" THEN "sleeping" ELSE periodicPc
    /\ tasks' = [tasks EXCEPT ![_tasks["flush_task"]].state = "done"]
    /\ UNCHANGED <<busVars, books, trade_results, storagePc, shutdown_event, _lock,
                   batch_to_flush, stopPc, sink, handled, _running, _tasks, startPc, monitorPc,
                   resetPc, resets, orchRest>>

ArbitrageTradeSuccessful == <<"ArbitrageTradeSuccessful", <<>>>>

\* ArbitrageTradeSuccessful messages published so far.
SuccessCount ==
    Len(resets) + Len(SelectSeq(queue, LAMBDA m : m.type = "ArbitrageTradeSuccessful"))
        + (IF cur.type = "ArbitrageTradeSuccessful" THEN 1 ELSE 0)

\* A trade of which both legs went through is announced on the bus.
arbitrage_trade_successful_published ==
    /\ startPc = "gathering"
    /\ busRunning
    /\ busWaiting
    /\ SuccessCount < MaxResets
    /\ queue' = queue_put(queue, Msg(nextId, ArbitrageTradeSuccessful[1],
                                     ArbitrageTradeSuccessful[2]))
    /\ nextId' = nextId + 1
    /\ UNCHANGED <<subscribers, cur, hidx, busRunning, busWaiting, cancelled, ran,
                   gotCount, doneCount>>
    /\ UNCHANGED <<books, trade_results, storagePc, shutdown_event, storageVars, orchVars,
                   orchRest>>

\* The sleep of the finally clause: _reconnect_delay_seconds, and 3.
reconnect_delay_seconds(venue) == IF venue = KALSHI THEN 5 ELSE 3

\* self.cool_down_seconds, the default and what main.py passes.
cool_down_seconds == 5

\* The venue of an adapter task.
venue_of(coro) == IF coro = "kalshi_connect" THEN KALSHI ELSE POLYMARKET

\* asyncio.sleep(2) followed by asyncio.sleep(cool_down_seconds) lasts
\* longer than the sleep in the finally block of the venue's adapter, which
\* starts when the first of the two does.
reset_outlasts_finally(venue) == 2 + cool_down_seconds > reconnect_delay_seconds(venue)

\* _handle_successful_trade_and_reset, step 1: cancel() on both adapter
\* tasks that are registered and not done, then await asyncio.sleep(2).
soft_reset_cancels ==
    /\ busRunning
    /\ CurHandler = "_handle_successful_trade_and_reset"
    /\ resetPc = "idle"
    /\ tasks' = cancel_named(tasks, _tasks, Adapters)
    /\ resetPc' = "sleep_2"
    /\ UNCHANGED <<busVars, books, trade_results, storagePc, shutdown_event, storageVars,
                   _running, _tasks, startPc, monitorPc, resets, orchRest>>

\* Step 2: the first sleep is over; await asyncio.sleep(cool_down_seconds).
\* The tasks cancel() made ready have all run by then: the event loop runs
\* what is ready before a timer that is two seconds away.
soft_reset_cool_down ==
    /\ busRunning
    /\ CurHandler = "_handle_successful_trade_and_reset"
    /\ resetPc = "sleep_2"
    /\ \A i \in DOMAIN tasks :
          tasks[i].coro \in Adapters => tasks[i].state \notin {"must_cancel", "must_cancel_finally"}
    /\ resetPc' = "cool_down"
    /\ UNCHANGED <<busVars, books, trade_results, storagePc, shutdown_event, storageVars,
                   _running, tasks, _tasks, startPc, monitorPc, resets, orchRest>>

\* Step 3: the cool-down is over; market_manager.reset(), a new task for
\* each adapter registered under the old name, and the handler returns.
\* The finally sleep of a cancelled adapter that the two sleeps outlast is
\* over by then.
soft_reset_restarts ==
    /\ busRunning
    /\ CurHandler = "_handle_successful_trade_and_reset"
    /\ resetPc = "cool_down"
    /\ \A i \in DOMAIN tasks :
          ~(tasks[i].state = "finally" /\ reset_outlasts_finally(venue_of(tasks[i].coro)))
    /\ books' = reset(books, now)
    /\ tasks' = create_task(create_task(tasks, "kalshi_connect"), "poly_connect")
    /\ _tasks' = [_tasks EXCEPT !["kalshi_connect"] = Len(tasks) + 1,
                                !["poly_connect"] = Len(tasks) + 2]
    /\ resets' = Append(resets, [books_before |-> books,
                                 old_tasks |-> <<tasks[_tasks["kalshi_connect"]],
                                                 tasks[_tasks["poly_connect"]]>>,
                                 next_id |-> nextId])
    /\ resetPc' = "idle"
    /\ HandlerEnds("_handle_successful_trade_and_reset", "return", <<>>)
    /\ UNCHANGED <<trade_results, storagePc, shutdown_event, storageVars, _running, startPc,
                   monitorPc, orchRest>>

\* The event loop runs the tasks cancel() was called on, one after the
\* other: the CancelledError is raised in each.  An adapter that was
\* connected goes through its finally block; one that was in its reconnect
\* delay, or had not run yet, ends at once.  The bus returns from run();
\* every other task ends cancelled.
after_cancelled_error(task, connected) ==
    IF task.state = "must_cancel_finally" THEN [task EXCEPT !.state = "cancelled"]
    ELSE IF task.state # "must_cancel" THEN task
    ELSE IF task.coro = "message_bus" THEN [task EXCEPT !.state = "done"]
    ELSE IF task.coro \in Adapters /\ connected THEN [task EXCEPT !.state = "finally"]
    ELSE [task EXCEPT !.state = "cancelled"]

cancelled_tasks_run ==
    /\ OthersMayRun
    /\ \E i \in DOMAIN tasks : tasks[i].state \in {"must_cancel", "must_cancel_finally"}
    /\ \E connected \in [Adapters -> BOOLEAN] :
          tasks' = [i \in DOMAIN tasks |->
                      after_cancelled_error(tasks[i],
                          tasks[i].coro \in Adapters /\ connected[tasks[i].coro])]
    /\ monitorPc' = IF /\ _tasks["shutdown_monitor"] # 0
                       /\ tasks[_tasks["shutdown_monitor"]].state = "must_cancel"
                    THEN "cancelled" ELSE monitorPc
    /\ UNCHANGED <<busVars, books, trade_results, storagePc, shutdown_event, storageVars,
                   _running, _tasks, startPc, resetPc, resets, orchRest>>

\* The sleep in an adapter's finally block is over: the CancelledError
\* leaves connect_forever.
adapter_finally_ends ==
    /\ OthersMayRun
    /\ \E i \in DOMAIN tasks :
          /\ tasks[i].state = "finally"
          /\ tasks' = [tasks EXCEPT ![i].state = "cancelled"]
    /\ UNCHANGED <<busVars, books, trade_results, storagePc, shutdown_event, storageVars,
                   _running, _tasks, startPc, monitorPc, resetPc, resets, orchRest>>

\* Some component sets the shutdown event.
set_shutdown_event ==
    /\ startPc = "gathering"
    /\ ~shutdown_event
    /\ shutdown_event' = TRUE
    /\ UNCHANGED <<busVars, books, trade_results, storagePc, storageVars, orchVars, orchRest>>

\* _shutdown_monitor: shutdown_event.wait() returns and stop() runs up to
\* its gather.  The monitor is itself a task of _tasks: stop() calls
\* cancel() on it while it runs, and the gather it then awaits has the
\* monitor among its children.  The pending cancel is passed to that
\* gather, whose cancel() calls cancel() on the monitor, which passes it to
\* the gather again: the RecursionError ends in the event loop's exception
\* handler and the monitor stays suspended on a gather that waits for the
\* monitor.  The tasks created before the monitor have run their first
\* step by then.
_shutdown_monitor ==
    /\ OthersMayRun
    /\ _tasks["shutdown_monitor"] # 0
    /\ tasks[_tasks["shutdown_monitor"]].state = "pending"
    /\ tasks[_tasks["flush_task"]].state # "pending"
    /\ monitorPc = "waiting"
    /\ shutdown_event
    /\ LET stopped == orchestrator_stop(_running, tasks, _tasks)
       IN /\ _running' = stopped._running
          /\ IF stopped.cancelled_any
             THEN /\ TasksBecome([stopped.tasks EXCEPT
                                     ![_tasks["shutdown_monitor"]].state = "awaits_gather"])
                  /\ monitorPc' = "in_stop"
             ELSE /\ TasksBecome([tasks EXCEPT ![_tasks["shutdown_monitor"]].state = "done"])
                  /\ monitorPc' = "returned"
    /\ UNCHANGED <<books, trade_results, storagePc, shutdown_event, storageVars, _tasks,
                   startPc, resets, orchRest>>

\* The task running run_live_trading_service is cancelled from outside:
\* the gather _start awaits is cancelled, which calls cancel() on its
\* children.  With the monitor suspended in stop() that cancel() raises
\* RecursionError in the caller and _start is not cancelled.
_start_cancelled ==
    /\ OthersMayRun
    /\ startPc = "gathering"
    /\ monitorPc # "in_stop"
    /\ TasksBecome(cancel_named(tasks, _tasks, tasks_to_await))
    /\ startPc' = "cancelling"
    /\ UNCHANGED <<books, trade_results, storagePc, shutdown_event, storageVars, _running,
                   _tasks, monitorPc, resets, orchRest>>

\* The gather of _start is over: a child ended cancelled, or (after the
\* gather itself was cancelled) all children ended.  except CancelledError,
\* then finally: await self.stop().
_start_finally ==
    /\ OthersMayRun
    /\ \/ /\ startPc = "gathering"
          /\ \E name \in tasks_to_await : tasks[_tasks[name]].state = "cancelled"
       \/ /\ startPc = "cancelling"
          /\ \A name \in tasks_to_await : done(tasks[_tasks[name]])
    /\ LET stopped == orchestrator_stop(_running, tasks, _tasks)
       IN /\ _running' = stopped._running
          /\ TasksBecome(stopped.tasks)
          /\ startPc' = IF stopped.cancelled_any THEN "in_stop" ELSE "returned"
    /\ UNCHANGED <<books, trade_results, storagePc, shutdown_event, storageVars, _tasks,
                   monitorPc, resets, orchRest>>

\* stop() called by _start: the gather over every task of _tasks is over.
_start_stop_returns ==
    /\ OthersMayRun
    /\ startPc = "in_stop"
    /\ \A name \in TaskNames : done(tasks[_tasks[name]])
    /\ startPc' = "returned"
    /\ UNCHANGED <<busVars, books, trade_results, storagePc, shutdown_event, storageVars,
                   _running, tasks, _tasks, monitorPc, resetPc, resets, orchRest>>

InitOrchestrator ==
    /\ subscribers = Wiring
    /\ InitBusState
    /\ InitAppState
    /\ dry_run = FALSE
    /\ batch_size \in 1..MaxBatchSize

NextOrchestrator ==
    \/ _start
    \/ BusGet
    \/ BusTaskDone
    \/ kalshi_task_publishes
    \/ _handle_snapshot
    \/ handle_market_book_update
    \/ orchestrator_store_trade_results
    \/ handle_trade_results_received
    \/ handler_flush_batch
    \/ flush_task_runs
    \/ arbitrage_trade_successful_published
    \/ soft_reset_cancels
    \/ soft_reset_cool_down
    \/ soft_reset_restarts
    \/ cancelled_tasks_run
    \/ adapter_finally_ends
    \/ set_shutdown_event
    \/ _shutdown_monitor
    \/ _start_cancelled
    \/ _start_finally
    \/ _start_stop_returns

SpecOrchestrator == InitOrchestrator /\ [][NextOrchestrator]_vars

\* The steps the event loop takes on its own: a task that can run does run,
\* and a sleep that was started ends.
OrchestratorProgress ==
    \/ _start
    \/ BusGet
    \/ BusTaskDone
    \/ _handle_snapshot
    \/ handle_market_book_update
    \/ handle_trade_results_received
    \/ handler_flush_batch
    \/ flush_task_runs
    \/ soft_reset_cancels
    \/ soft_reset_cool_down
    \/ soft_reset_restarts
    \/ cancelled_tasks_run
    \/ adapter_finally_ends
    \/ _shutdown_monitor
    \/ _start_finally
    \/ _start_stop_returns

SpecOrchestratorLive == SpecOrchestrator /\ WF_vars(OrchestratorProgress)

\* ---------------------------------------------------------------------
\* The arbitrage monitor on its own: the books of the market are given,
\* MarketBookUpdated events arrive through the bus, and nothing releases
\* the trade-in-progress flag once it is set.
\* ---------------------------------------------------------------------
MaxUpdates == 2

\* The Kalshi book was updated at DetectorNow; the Polymarket books then,
\* STALENESS_THRESHOLD before, or one second more before.
DetectorNow == STALENESS_THRESHOLD + 1
PolymarketStamps == {DetectorNow - STALENESS_THRESHOLD - 1, DetectorNow - STALENESS_THRESHOLD, DetectorNow}

OneLevel(price, size) == [p \in {price} |-> size]

\* A side of a book: empty, or one level.
DetectorLadders(prices, sizes) ==
    {EmptyLadder} \cup {OneLevel(price, size) : price \in prices, size \in sizes}

KalshiYesBooks ==
    {[bids |-> bids, asks |-> asks, last_update |-> DetectorNow] :
        bids \in DetectorLadders({8, 38}, {SizeScale, 2 * SizeScale}),
        asks \in DetectorLadders({10, 40}, {SizeScale, 2 * SizeScale})}

PolymarketBooks(prices, stamps) ==
    {[bids |-> EmptyLadder, asks |-> asks, last_update |-> t] :
        asks \in DetectorLadders(prices, {1, 2 * SizeScale}), t \in stamps}

\* The Kalshi book is not crossed.
DetectorBooks ==
    {bks \in [BookIds -> KalshiYesBooks \cup PolymarketBooks({5, 34, 35, 56, 57, 87}, PolymarketStamps)] :
        /\ bks[<<KALSHI, "YES">>] \in KalshiYesBooks
        /\ \A bid \in DOMAIN bks[<<KALSHI, "YES">>].bids :
              \A ask \in DOMAIN bks[<<KALSHI, "YES">>].asks : bid < ask
        /\ bks[<<POLYMARKET, "YES">>] \in PolymarketBooks({5, 34, 35}, PolymarketStamps \ {DetectorNow - STALENESS_THRESHOLD})
        /\ bks[<<POLYMARKET, "NO">>] \in PolymarketBooks({56, 57, 87}, PolymarketStamps)}

\* The subscriptions of the arbitrage monitor (bootstrap.py).
DetectorWiring ==
    [t \in {"MarketBookUpdated", "ArbitrageOpportunityFound"} |->
        IF t = "MarketBookUpdated" THEN <<"handle_market_book_update">>
        ELSE <<"handle_arbitrage_opportunity_found">>]

\* MarketManager publishes MarketBookUpdated for the market.
market_book_updated_published ==
    /\ fed < MaxUpdates
    /\ \E platform \in {KALSHI, POLYMARKET} :
          AdapterPublishes(MarketBookUpdated([market_id |-> M1, platform |-> platform]))

InitDetector ==
    /\ subscribers = DetectorWiring
    /\ InitBusState
    /\ books \in DetectorBooks
    /\ now = DetectorNow
    /\ fed = 0
    /\ is_trade_in_progress = FALSE
    /\ execPc = "idle"
    /\ execCmd = NoCmd
    /\ trade_results = <<>>
    /\ storagePc = "idle"
    /\ shutdown_event = FALSE
    /\ lastAttempt = NoAttempt
    /\ aofInWindow = 0
    /\ pendingUnwind = FALSE
    /\ unwindPc = "idle"
    /\ unwinds = <<>>
    /\ InitExtState
    /\ dry_run = FALSE
    /\ batch_size = 1

NextDetector ==
    \/ BusGet
    \/ BusTaskDone
    \/ market_book_updated_published
    \/ handle_market_book_update
    \/ handle_arbitrage_opportunity_found

SpecDetector == InitDetector /\ [][NextDetector]_vars

\* ---------------------------------------------------------------------
\* The fee and the trade sizer (app/strategies/trade_sqrt_size.py) called
\* on their own.  Balances and fees are in cents, sizes in 1 / SizeScale
\* contracts; a wallet holds its currency or does not.
\* ---------------------------------------------------------------------
MaxContracts == 10
SHUTDOWN_BALANCE == 10

CalcFrame ==
    UNCHANGED <<busVars, books, now, fed, is_trade_in_progress, dry_run, execPc, execCmd,
                batch_size, trade_results, storagePc, shutdown_event, lastAttempt, aofInWindow,
                pendingUnwind, unwindPc, unwinds, bookVars, kalshiVars, storageVars, orchVars,
                adapterVars>>

NoBalance == [present |-> FALSE]
Balance(cents) == [present |-> TRUE, amount |-> cents]

\* int(Decimal.sqrt()): the largest k with k * k <= trade_size.
calculate_trade_size(trade_size) ==
    IF trade_size < 0 THEN 0
    ELSE CHOOSE k \in 0..(trade_size \div SizeScale) :
            /\ k * k * SizeScale <= trade_size
            /\ (k + 1) * (k + 1) * SizeScale > trade_size

\* get_balance raises KeyError for a currency the wallet does not hold.
calculate_minimum_wallet_budget(wallets, kalshi_fees) ==
    IF ~wallets.kalshi_wallet.present \/ ~wallets.polymarket_wallet.present THEN 0
    ELSE LET kalshi_usd == wallets.kalshi_wallet.amount \div 100
             poly_usdc_e == wallets.polymarket_wallet.amount \div 100
             kalshi_usd_adjusted == (kalshi_usd * 95 - kalshi_fees) \div 100
         IN IF Min(kalshi_usd_adjusted, poly_usdc_e) > 0
            THEN Min(kalshi_usd_adjusted, poly_usdc_e) ELSE 0

get_trade_size(wallets, trade_opportunity_size, kalshi_fees) ==
    LET wallet_budget == calculate_minimum_wallet_budget(wallets, kalshi_fees)
        sqrt_opportunity == calculate_trade_size(trade_opportunity_size)
        potential_size == Min(wallet_budget, sqrt_opportunity)
    IN IF potential_size >= SHUTDOWN_BALANCE THEN potential_size ELSE 0

FeePrices == (0 - 1)..101

SizerKalshiWallets == {NoBalance, Balance(1250), Balance(10000)}
SizerPolymarketWallets == {NoBalance, Balance(950), Balance(1099), Balance(5000)}
SizerSizes == {0, 99 * SizeScale + 1, 100 * SizeScale, 144 * SizeScale + 1, 10000 * SizeScale}
SizerFees == {0, 100, 188}

_kalshi_fee_called ==
    /\ \E n \in 1..MaxContracts, c \in FeePrices :
          called' = [op |-> "_kalshi_fee", contracts |-> n, price |-> c,
                     result |-> _kalshi_fee(n * SizeScale, c)]
    /\ CalcFrame

\* get_trade_size is called with wallets, a size and a fee, while the
\* BalanceService has or has not reached its maximum spend.
get_trade_size_called ==
    /\ \E k \in SizerKalshiWallets, p \in SizerPolymarketWallets, size \in SizerSizes,
          fees \in SizerFees, maximum_spend_reached \in BOOLEAN :
          LET wallets == [kalshi_wallet |-> k, polymarket_wallet |-> p]
          IN called' = [op |-> "get_trade_size", wallets |-> wallets,
                        trade_opportunity_size |-> size, kalshi_fees |-> fees,
                        maximum_spend_reached |-> maximum_spend_reached,
                        result |-> get_trade_size(wallets, size, fees)]
    /\ CalcFrame

InitCalc ==
    /\ subscribers = Wiring
    /\ InitBusState
    /\ InitAppState
    /\ dry_run = FALSE
    /\ batch_size = 1

NextCalc ==
    \/ _kalshi_fee_called
    \/ get_trade_size_called

SpecCalc == InitCalc /\ [][NextCalc]_vars

\* ---------------------------------------------------------------------
\* The run loop of the two venue adapters, connect_forever
\* (app/ingestion/kalshi_wss_client.py, app/ingestion/clob_wss.py), as an
\* asyncio task on its own.  A task is suspended at one await at a time:
\* the sleep of the finally clause (DISCONNECTED), websockets.connect
\* (CONNECTING), the subscription (SUBSCRIBING) or the iteration over the
\* socket in _listen (STREAMING).
\* ---------------------------------------------------------------------
Venues == {KALSHI, POLYMARKET}

\* The exceptions the connection can raise, each with its base classes.
\* TimeoutError stands for every other subclass of Exception.
Bases ==
    [e \in {"ConnectionClosed", "ConnectionRefusedError", "RuntimeError", "TimeoutError",
            "CancelledError"} |->
        IF e = "CancelledError" THEN {e, "BaseException"} ELSE {e, "Exception", "BaseException"}]

\* The except clauses of the try statement inside the loop, in order.
except_clauses_connection_errors_only(venue) ==
    IF venue = KALSHI THEN <<{"ConnectionClosed", "ConnectionRefusedError"}, {"RuntimeError"}>>
    ELSE <<{"RuntimeError"}>>

except_clauses(venue) ==
    IF venue = KALSHI
    THEN <<{"ConnectionClosed", "ConnectionRefusedError"}, {"RuntimeError"}, {"Exception"}>>
    ELSE <<{"RuntimeError"}, {"Exception"}>>

is_caught(venue, exc) ==
    \E i \in DOMAIN except_clauses(venue) : except_clauses(venue)[i] \cap Bases[exc] # {}

\* require_initialized: bus and market_map are set.
NewLoop(configured) ==
    [pc |-> "DISCONNECTED", started |-> FALSE, configured |-> configured, _ws |-> FALSE,
     raising |-> None, last_error |-> None, sleep |-> 0, connects |-> 0,
     cancel_requested |-> FALSE, ended_with |-> None]

\* An exception raised inside the try statement: a matching except clause
\* logs it, and the finally clause drops the socket and sleeps, with the
\* exception still on its way out when no clause matched.
loop_raises(loop, venue, exc) ==
    [loop EXCEPT !.pc = "DISCONNECTED", !._ws = FALSE, !.last_error = exc,
                 !.sleep = reconnect_delay_seconds(venue),
                 !.raising = IF is_caught(venue, exc) THEN None ELSE exc]

loop_ends(loop, exc) ==
    [loop EXCEPT !.pc = "ENDED", !._ws = FALSE, !.sleep = 0, !.raising = None, !.ended_with = exc]

AdapterFrame ==
    UNCHANGED <<busVars, books, now, fed, is_trade_in_progress, dry_run, execPc, execCmd,
                batch_size, trade_results, storagePc, shutdown_event, lastAttempt, aofInWindow,
                pendingUnwind, unwindPc, unwinds, bookVars, kalshiVars, storageVars, orchVars,
                calcVars>>

\* The sleep is over (or the task runs for the first time) and nothing is
\* on its way out: the loop goes round and connects.  The wrapper of the
\* Polymarket connect_forever raises before the loop when it is not
\* configured.
loop_connects ==
    /\ \E venue \in Venues :
          LET loop == loops[venue]
          IN /\ loop.pc = "DISCONNECTED"
             /\ loop.raising = None
             /\ loop.connects < MaxConnects
             /\ loops' = [loops EXCEPT ![venue] =
                   IF venue = POLYMARKET /\ ~loop.configured
                   THEN loop_ends([loop EXCEPT !.started = TRUE], "RuntimeError")
                   ELSE [loop EXCEPT !.pc = "CONNECTING", !.started = TRUE, !.sleep = 0,
                                     !.connects = loop.connects + 1]]
    /\ AdapterFrame

\* websockets.connect returns a socket or raises.
websockets_connect_returns ==
    /\ \E venue \in Venues :
          LET loop == loops[venue]
          IN /\ loop.pc = "CONNECTING"
             /\ \/ loops' = [loops EXCEPT ![venue] = [loop EXCEPT !.pc = "SUBSCRIBING", !._ws = TRUE]]
                \/ \E exc \in {"ConnectionRefusedError", "TimeoutError"} :
                      loops' = [loops EXCEPT ![venue] = loop_raises(loop, venue, exc)]
    /\ AdapterFrame

\* _on_open (Kalshi) or the subscription request and its confirmation
\* (Polymarket): the wrapper raises RuntimeError when the client is not
\* configured, the send raises when the connection is gone.
subscription_returns ==
    /\ \E venue \in Venues :
          LET loop == loops[venue]
          IN /\ loop.pc = "SUBSCRIBING"
             /\ IF ~loop.configured
                THEN loops' = [loops EXCEPT ![venue] = loop_raises(loop, venue, "RuntimeError")]
                ELSE \/ loops' = [loops EXCEPT ![venue] = [loop EXCEPT !.pc = "STREAMING"]]
                     \/ loops' = [loops EXCEPT ![venue] = loop_raises(loop, venue, "ConnectionClosed")]
    /\ AdapterFrame

\* _listen ends: the iteration over the socket raises, or the socket was
\* closed normally and _listen returns, and the finally clause sleeps.
_listen_ends ==
    /\ \E venue \in Venues :
          LET loop == loops[venue]
          IN /\ loop.pc = "STREAMING"
             /\ \/ \E exc \in {"ConnectionClosed", "RuntimeError", "TimeoutError"} :
                      loops' = [loops EXCEPT ![venue] = loop_raises(loop, venue, exc)]
                \/ loops' = [loops EXCEPT ![venue] =
                      [loop EXCEPT !.pc = "DISCONNECTED", !._ws = FALSE,
                                   !.sleep = reconnect_delay_seconds(venue)]]
    /\ AdapterFrame

\* Task.cancel(): CancelledError is thrown at the await the task is
\* suspended in.  Inside the try statement no clause catches it and the
\* finally clause sleeps before it leaves; in the sleep of the finally
\* clause, or before the first step of the task, it ends the task at once.
task_cancel ==
    /\ \E venue \in Venues :
          LET loop == [loops[venue] EXCEPT !.cancel_requested = TRUE]
          IN /\ loop.pc # "ENDED"
             /\ loops' = [loops EXCEPT ![venue] =
                   IF loop.pc = "DISCONNECTED"
                   THEN loop_ends(loop, "CancelledError")
                   ELSE loop_raises(loop, venue, "CancelledError")]
    /\ AdapterFrame

\* The sleep of the finally clause is over and an exception no clause
\* caught leaves connect_forever.
finally_reraises ==
    /\ \E venue \in Venues :
          LET loop == loops[venue]
          IN /\ loop.pc = "DISCONNECTED"
             /\ loop.raising # None
             /\ loops' = [loops EXCEPT ![venue] = loop_ends(loop, loop.raising)]
    /\ AdapterFrame

InitAdapter ==
    /\ subscribers = Wiring
    /\ InitBusState
    /\ InitServices
    /\ InitComponents
    /\ dry_run = FALSE
    /\ batch_size = 1
    /\ \E configured \in [Venues -> BOOLEAN] :
          loops = [venue \in Venues |-> NewLoop(configured[venue])]

NextAdapter ==
    \/ loop_connects
    \/ websockets_connect_returns
    \/ subscription_returns
    \/ _listen_ends
    \/ task_cancel
    \/ finally_reraises

SpecAdapter == InitAdapter /\ [][NextAdapter]_vars

\* ---------------------------------------------------------------------
\* MarketManager (app/markets/manager.py) on the bus with the
\* subscriptions of bootstrap, fed with snapshots and deltas of any
\* content: levels of size 0, bids and asks, a market that is not
\* registered.
\* ---------------------------------------------------------------------
\* MarketManager.__init__ subscribes both handlers, bootstrap subscribes
\* them again; nothing else is subscribed.
ManagerWiring ==
    [t \in {"OrderBookSnapshotReceived", "OrderBookDeltaReceived"} |->
        IF t = "OrderBookSnapshotReceived" THEN <<"_handle_snapshot", "_handle_snapshot">>
        ELSE <<"_handle_delta", "_handle_delta">>]

ManagerLevels ==
    {<<>>, <<<<40, SizeScale>>>>, <<<<40, 0>>, <<58, 1>>>>, <<<<58, SizeScale>>, <<40, 1>>>>}

ManagerSnapshots ==
    {OrderBookSnapshotReceived(KALSHI, M1, "YES", bids, asks) :
        bids \in ManagerLevels, asks \in ManagerLevels}
    \cup {OrderBookSnapshotReceived(POLYMARKET, M1, "NO", <<>>, <<<<40, SizeScale>>>>),
          OrderBookSnapshotReceived(KALSHI, "K2", "YES", <<>>, <<<<40, SizeScale>>>>)}

ManagerDeltas ==
    {OrderBookDeltaReceived(KALSHI, M1, "YES", side, price, size) :
        side \in {BUY, SELL}, price \in Prices, size \in {0, 1, SizeScale}}
    \cup {OrderBookDeltaReceived(KALSHI, M1, "NO", SELL, 40, SizeScale)}

snapshot_received_published ==
    /\ fed < MaxUpdates
    /\ \E event \in ManagerSnapshots : AdapterPublishes(event)

delta_received_published ==
    /\ fed < MaxUpdates
    /\ \E event \in ManagerDeltas : AdapterPublishes(event)

InitManager ==
    /\ subscribers = ManagerWiring
    /\ InitBusState
    /\ InitAppState
    /\ dry_run = FALSE
    /\ batch_size = 1

NextManager ==
    \/ BusGet
    \/ BusTaskDone
    \/ snapshot_received_published
    \/ delta_received_published
    \/ _handle_snapshot
    \/ _handle_delta

SpecManager == InitManager /\ [][NextManager]_vars

\* ---------------------------------------------------------------------
\* Trade attempts from detection to the unlock: the wired application with
\* books that hold an opportunity (Kalshi YES ask 0.40, Polymarket NO ask
\* 0.40, of a whole contract or of half a one), fed with MarketBookUpdated.
\* ---------------------------------------------------------------------
AttemptBooks ==
    {[k \in BookIds |->
        IF k = <<KALSHI, "YES">>
        THEN [bids |-> EmptyLadder, asks |-> OneLevel(40, 2 * SizeScale), last_update |-> 0]
        ELSE IF k = <<POLYMARKET, "NO">>
        THEN [bids |-> EmptyLadder, asks |-> OneLevel(40, size), last_update |-> 0]
        ELSE NewOrderbook(0)] : size \in {1, 2 * SizeScale}}

InitAttempt ==
    /\ subscribers = Wiring
    /\ InitBusState
    /\ books \in AttemptBooks
    /\ now = 0
    /\ fed = 0
    /\ is_trade_in_progress = FALSE
    /\ execPc = "idle"
    /\ execCmd = NoCmd
    /\ trade_results = <<>>
    /\ storagePc = "idle"
    /\ shutdown_event = FALSE
    /\ lastAttempt = NoAttempt
    /\ aofInWindow = 0
    /\ pendingUnwind = FALSE
    /\ unwindPc = "idle"
    /\ unwinds = <<>>
    /\ InitExtState
    /\ dry_run \in BOOLEAN
    /\ batch_size \in 1..MaxBatchSize

\* The steps that are taken whenever they can be: the bus task runs, every
\* handler it awaits goes on, every leg call and every unwind order returns
\* or raises.  The venues owe nothing.
AttemptProgress ==
    \/ BusGet
    \/ BusTaskDone
    \/ handle_market_book_update
    \/ handle_arbitrage_opportunity_found
    \/ handle_execute_trade
    \/ gather_returns
    \/ handle_trade_results_received
    \/ handler_flush_batch
    \/ handle_trade_failed
    \/ unwind_order_returns
    \/ handle_trade_attempt_completed

NextAttempt ==
    \/ market_book_updated_published
    \/ BusGet
    \/ BusTaskDone
    \/ handle_market_book_update
    \/ handle_arbitrage_opportunity_found
    \/ handle_execute_trade
    \/ gather_returns
    \/ handle_trade_results_received
    \/ handler_flush_batch
    \/ handle_trade_failed
    \/ unwind_order_returns
    \/ handle_trade_attempt_completed

SpecAttemptLive == InitAttempt /\ [][NextAttempt]_vars /\ WF_vars(AttemptProgress)

\* ---------------------------------------------------------------------
\* A successful attempt followed by the soft reset: the executor announces
\* the success from inside its handler, as the specification and
\* tests/unit-tests/services/test_trade_executor.py have it
\* ---------------------------------------------------------------------
\* handle_trade_response with the announcement: when both legs went
\* through, ArbitrageTradeSuccessful is published after StoreTradeResults
\* and before TradeAttemptCompleted.
handle_trade_response_announcing(kalshi_result, polymarket_result, category, opportunity) ==
    LET response == handle_trade_response(kalshi_result, polymarket_result, category, opportunity)
    IN IF PathOf(kalshi_result, polymarket_result) = "both_succeed"
       THEN [response EXCEPT !.published = <<response.published[1], ArbitrageTradeSuccessful,
                                             response.published[2]>>]
       ELSE response

\* asyncio.gather returns the two leg results and the announcing
\* handle_trade_response runs.
gather_returns_announcing ==
    /\ busRunning
    /\ CurHandler = "handle_execute_trade"
    /\ execPc = "legs"
    /\ \E kalshi_result \in KalshiLegResults(execCmd.opportunity, execCmd.trade_size),
          polymarket_result \in PolymarketLegResults(execCmd.opportunity, execCmd.trade_size) :
          LET response == handle_trade_response_announcing(kalshi_result, polymarket_result,
                                                           "buy both", execCmd.opportunity)
          IN /\ HandlerEnds("handle_execute_trade", response.outcome, response.published)
             /\ lastAttempt' = [n |-> lastAttempt.n + 1,
                                path |-> PathOf(kalshi_result, polymarket_result),
                                outcome |-> response.outcome,
                                published |-> response.published,
                                kalshi_result |-> kalshi_result,
                                polymarket_result |-> polymarket_result,
                                trade_size |-> execCmd.trade_size]
             /\ pendingUnwind' = (pendingUnwind \/
                    \E i \in 1..Len(response.published) : response.published[i][1] = "TradeFailed")
    /\ execPc' = "idle"
    /\ execCmd' = NoCmd
    /\ UNCHANGED <<books, now, fed, is_trade_in_progress, dry_run, extVars, batch_size, trade_results,
                   storagePc, shutdown_event, aofInWindow, unwindPc, unwinds>>

\* What the adapter task of each venue publishes once connected: the
\* snapshot of the book it subscribed to.
TaskSnapshots(name) ==
    IF name = "kalshi_connect"
    THEN {OrderBookSnapshotReceived(KALSHI, M1, "YES", <<>>, <<<<40, 2 * SizeScale>>>>)}
    ELSE {OrderBookSnapshotReceived(POLYMARKET, M1, "NO", <<>>, <<<<40, 2 * SizeScale>>>>)}

\* An adapter task that is running publishes while the bus task is
\* suspended.  A task cancel() was called on raises CancelledError at its
\* next step and publishes nothing more.
adapter_task_publishes ==
    /\ busRunning
    /\ \E name \in Adapters :
          /\ _tasks[name] # 0
          /\ tasks[_tasks[name]].state = "pending"
          /\ \E event \in TaskSnapshots(name) : AdapterPublishes(event)

NextSoftReset ==
    \/ _start
    \/ adapter_task_publishes
    \/ BusGet
    \/ BusTaskDone
    \/ _handle_snapshot
    \/ handle_market_book_update
    \/ handle_arbitrage_opportunity_found
    \/ handle_execute_trade
    \/ gather_returns_announcing
    \/ handle_trade_results_received
    \/ handler_flush_batch
    \/ handle_trade_failed
    \/ unwind_order_returns
    \/ handle_trade_attempt_completed
    \/ soft_reset_cancels
    \/ soft_reset_cool_down
    \/ soft_reset_restarts
    \/ cancelled_tasks_run
    \/ adapter_finally_ends

SpecSoftReset == Init /\ [][NextSoftReset]_vars

\* ---------------------------------------------------------------------
\* Properties
\* ---------------------------------------------------------------------
\* The messages of one type among those an attempt published.
OfType(published, type) == SelectSeq(published, LAMBDA m : m[1] = type)
Count(published, type) == Len(OfType(published, type))

\* C1: single in-flight trade.  From the ArbitrageOpportunityFound that
\* handle_market_book_update publishes until handle_trade_attempt_completed
\* runs, the in-progress flag is set and no second
\* ArbitrageOpportunityFound is published.
C1_SingleInFlightTrade ==
    /\ aofInWindow <= 1
    /\ (aofInWindow = 1 => is_trade_in_progress)

\* A MarketBookUpdated is about to be handled while the window is open and
\* the books hold an opportunity.
C1_Witness ==
    /\ is_trade_in_progress
    /\ aofInWindow = 1
    /\ cur.type = "MarketBookUpdated"
    /\ CurHandler = "handle_market_book_update"
    /\ _check_for_buy_both_arb(books).found

\* C2: every ExecuteTrade that handle_execute_trade has processed published
\* exactly one TradeAttemptCompleted, on each of the paths: zero size, both
\* legs succeed, one leg fails, both legs fail.
C2_ExactlyOneCompleted ==
    lastAttempt.path # "none" =>
        Count(lastAttempt.published, "TradeAttemptCompleted") = 1

\* C3: when exactly one leg raises, exactly one TradeFailed is published; it
\* names the venue that raised and carries the other venue, that order's
\* trade size, its order id and its instrument reference.  No TradeFailed
\* when both legs succeed or both fail.
C3_TradeFailedOnOneLegFailure ==
    LET failed == OfType(lastAttempt.published, "TradeFailed")
    IN /\ lastAttempt.path = "kalshi_fails" =>
            /\ Len(failed) = 1
            /\ failed[1][2].failed_leg_platform = KALSHI
            /\ failed[1][2].successful_leg.platform = POLYMARKET
            /\ failed[1][2].successful_leg.trade_size = lastAttempt.polymarket_result.trade_size
            /\ failed[1][2].successful_leg.order_id = lastAttempt.polymarket_result.orderID
            /\ failed[1][2].successful_leg.polymarket_token_id
                 = lastAttempt.polymarket_result.token_id
       /\ lastAttempt.path = "polymarket_fails" =>
            /\ Len(failed) = 1
            /\ failed[1][2].failed_leg_platform = POLYMARKET
            /\ failed[1][2].successful_leg.platform = KALSHI
            /\ failed[1][2].successful_leg.trade_size = lastAttempt.kalshi_result.trade_size
            /\ failed[1][2].successful_leg.order_id = lastAttempt.kalshi_result.order_id
            /\ failed[1][2].successful_leg.kalshi_ticker = lastAttempt.kalshi_result.ticker
            /\ failed[1][2].successful_leg.kalshi_side = lastAttempt.kalshi_result.side
       /\ lastAttempt.path \in {"both_succeed", "both_fail"} => Len(failed) = 0

\* C4: when both legs raise, the shutdown event is set and no TradeFailed
\* is published.
C4_BothFailSetsShutdown ==
    lastAttempt.path = "both_fail" =>
        /\ shutdown_event
        /\ Count(lastAttempt.published, "TradeFailed") = 0

\* C5: when both legs return orders, exactly one ArbitrageTradeSuccessful is
\* published, with StoreTradeResults and TradeAttemptCompleted, and the
\* shutdown event is not set.
C5_BothSucceedPublishesSuccess ==
    lastAttempt.path = "both_succeed" =>
        /\ Count(lastAttempt.published, "ArbitrageTradeSuccessful") = 1
        /\ Count(lastAttempt.published, "StoreTradeResults") = 1
        /\ Count(lastAttempt.published, "TradeAttemptCompleted") = 1
        /\ ~shutdown_event

\* C6: on a one-leg failure TradeFailed is published before
\* TradeAttemptCompleted, which is the last message of the attempt; until
\* the unwind order is placed the in-progress flag stays set and no
\* ArbitrageOpportunityFound is published.
C6_UnwindBeforeUnlock ==
    /\ lastAttempt.path \in {"kalshi_fails", "polymarket_fails"} =>
         LET published == lastAttempt.published
             n == Len(published)
         IN /\ n >= 2
            /\ published[n - 1][1] = "TradeFailed"
            /\ published[n][1] = "TradeAttemptCompleted"
    /\ pendingUnwind => (is_trade_in_progress /\ aofInWindow = 1)

\* C7: for a non-zero trade size exactly one StoreTradeResults is
\* published, first, whatever the legs did; in it a venue's error string is
\* set exactly when that venue's leg raised, and its order is set otherwise.
C7_StoreTradeResultsAlways ==
    lastAttempt.path \notin {"none", "zero_size"} =>
        LET published == lastAttempt.published
            result == published[1][2].arb_trade_results
            kalshi_raised == IsException(lastAttempt.kalshi_result)
            polymarket_raised == IsException(lastAttempt.polymarket_result)
        IN /\ Count(published, "StoreTradeResults") = 1
           /\ published[1][1] = "StoreTradeResults"
           /\ (result.kalshi_error_message # NoError) <=> kalshi_raised
           /\ (result.polymarket_error # NoError) <=> polymarket_raised
           /\ (result.kalshi_order # NoOrder) <=> ~kalshi_raised
           /\ (result.polymarket_order # NoOrder) <=> ~polymarket_raised
           /\ kalshi_raised => result.kalshi_error_message = lastAttempt.kalshi_result.exception
           /\ polymarket_raised => result.polymarket_error = lastAttempt.polymarket_result.exception
           /\ ~kalshi_raised => result.kalshi_order = lastAttempt.kalshi_result
           /\ ~polymarket_raised => result.polymarket_order = lastAttempt.polymarket_result

\* An attempt in which exactly one leg raised has been processed.
C7_Witness ==
    /\ lastAttempt.path = "polymarket_fails"
    /\ lastAttempt.trade_size > 0
    /\ Count(lastAttempt.published, "StoreTradeResults") = 1

\* C8: messages are dispatched in publish order by one consumer.  The k-th
\* message taken is the k-th published, the queue holds the later ones in
\* publish order, the handlers of the message being dispatched run in
\* registration order one at a time, and a message is taken only after
\* every handler of the one before it has ended; what a handler publishes
\* waits behind the message being dispatched.
C8_Order ==
    /\ cur.type # "None" => cur.id = gotCount
    /\ \A i \in 1..Len(queue) : queue[i].id = gotCount + i
    /\ doneCount = gotCount - (IF cur.type # "None" THEN 1 ELSE 0)
    /\ Len(ran) = hidx - 1
    /\ Len(ran) <= Len(HandlersOf(cur.type))
    /\ \A k \in 1..Len(ran) : ran[k][1] = HandlersOf(cur.type)[k]

C8_FifoDispatch ==
    [][/\ C8_Order'
       /\ (doneCount' # doneCount => Len(ran) = Len(HandlersOf(cur.type)))
       /\ (gotCount' # gotCount => cur.type = "None")]_vars

\* The second handler of a message has run while a message a handler
\* published waits in the queue behind an earlier one.
C8_Witness ==
    /\ cur.type = "T1"
    /\ Len(ran) = 2
    /\ gotCount >= 2
    /\ Len(queue) >= 2

\* C9: when a handler raises, the loop stays on the same message and calls
\* the next subscribed handler in registration order, keeps every queued
\* message, and keeps running; the loop ends only when the task is
\* cancelled.
C9_Step ==
    /\ (Len(ran') = Len(ran) + 1 /\ ran'[Len(ran')][2] = "raise") =>
          /\ busRunning'
          /\ cur' = cur
          /\ hidx' = hidx + 1
          /\ hidx' <= Len(HandlersOf(cur.type)) =>
                CurHandler' = HandlersOf(cur.type)[Len(ran') + 1]
          /\ SubSeq(queue', 1, Len(queue)) = queue
    /\ (busRunning /\ ~busRunning') => cancelled'

C9_HandlerExceptionIsolated == [][C9_Step]_vars

\* The first handler of a message raised and the second one ran.
C9_Witness ==
    /\ Len(ran) = 2
    /\ ran[1][2] = "raise"
    /\ ran[2][1] = "hB"
    /\ busRunning

\* The best levels of a book, as (price, size) pairs.
C10_BestBid(book) ==
    IF DOMAIN book.bids = {} THEN NoLevel
    ELSE LET p == CHOOSE p \in DOMAIN book.bids : \A q \in DOMAIN book.bids : q <= p
         IN <<p, book.bids[p]>>
C10_BestAsk(book) ==
    IF DOMAIN book.asks = {} THEN NoLevel
    ELSE LET p == CHOOSE p \in DOMAIN book.asks : \A q \in DOMAIN book.asks : p <= q
         IN <<p, book.asks[p]>>

\* C10: a snapshot or delta applied to a registered book publishes one
\* MarketBookUpdated(market_id, platform) exactly when the pair
\* (best_bid, best_ask) of (price, size) levels differs before and after.
C10_Step ==
    (/\ CurHandler \in {"_handle_snapshot", "_handle_delta"}
     /\ Len(ran') = Len(ran) + 1
     /\ FindBook(cur.body.market_id, cur.body.platform, cur.body.outcome) # <<>>) =>
        LET key == FindBook(cur.body.market_id, cur.body.platform, cur.body.outcome)
            before == <<C10_BestBid(books[key]), C10_BestAsk(books[key])>>
            after == <<C10_BestBid(books'[key]), C10_BestAsk(books'[key])>>
        IN IF before # after
           THEN /\ Len(queue') = Len(queue) + 1
                /\ SubSeq(queue', 1, Len(queue)) = queue
                /\ queue'[Len(queue')].type = "MarketBookUpdated"
                /\ queue'[Len(queue')].body =
                      [market_id |-> cur.body.market_id, platform |-> cur.body.platform]
           ELSE queue' = queue

C10_BookUpdatedIffTopChanged == [][C10_Step]_vars

\* A delta that changes only the size of the best ask of a book is about
\* to be applied.
C10_Witness ==
    /\ CurHandler = "_handle_delta"
    /\ Len(ran) = 0
    /\ cur.body.market_id = M1
    /\ cur.body.platform = KALSHI
    /\ cur.body.side = SELL
    /\ cur.body.price = 40
    /\ cur.body.size = SizeScale
    /\ DOMAIN books[<<KALSHI, "YES">>].asks = {40, 58}
    /\ books[<<KALSHI, "YES">>].asks[40] = 2 * SizeScale

\* C11: after any sequence of apply_update, snapshot application and clear,
\* neither ladder of an order book holds a level of size 0; an update of
\* size 0 removes the level, or changes nothing when the level is absent,
\* and is never stored.
C11_NoZeroSizeLevel ==
    /\ \A key \in BookIds :
          /\ \A p \in DOMAIN books[key].bids : books[key].bids[p] # 0
          /\ \A p \in DOMAIN books[key].asks : books[key].asks[p] # 0
    /\ (bookOp.op = "apply_update" /\ bookOp.size = 0) =>
          bookOp.price \notin DOMAIN LadderOf(books[BookUnderTest], bookOp.side)

\* An update of size 0 has just been applied at a price the ladder held,
\* while the other price of that ladder is still held.
C11_Witness ==
    /\ bookOp.op = "apply_update"
    /\ bookOp.size = 0
    /\ bookOp.had
    /\ DOMAIN LadderOf(books[BookUnderTest], bookOp.side) = Prices \ {bookOp.price}

\* C12: with last accepted sequence number N on the current subscription
\* (0 after every subscribe), a message of a tracked ticker is accepted
\* only if its seq is N+1; with any other seq, or none, the adapter closes
\* the socket with code 4000, publishes nothing, and leaves the sequence
\* number and the shadow books as they were.
C12_Step ==
    /\ (kalshiPc = "connecting" /\ kalshiPc' = "listening") => _last_seq' = 0
    /\ (rawCount' = rawCount + 1 /\ lastRaw'.data.msg.market_ticker \in DOMAIN market_map) =>
          LET data == lastRaw'.data
          IN IF "seq" \in DOMAIN data /\ data.seq = _last_seq + 1
             THEN /\ lastRaw'.verdict \in {"snapshot", "delta", "negative"}
                  /\ accepted' = Append(accepted, data)
                  /\ _last_seq' = data.seq
                  /\ kalshiPc' = "listening"
             ELSE /\ lastRaw'.verdict = "gap"
                  /\ closed_with' = SEQ_GAP_CLOSE_CODE
                  /\ kalshiPc' = "connecting"
                  /\ queue' = queue
                  /\ accepted' = accepted
                  /\ _last_seq' = _last_seq
                  /\ _books_state' = _books_state

C12_SequenceGate == [][C12_Step]_vars

\* A message two ahead of an established baseline has just been refused.
C12_Witness ==
    /\ lastRaw.verdict = "gap"
    /\ "seq" \in DOMAIN lastRaw.data
    /\ _last_seq >= 1
    /\ lastRaw.data.seq = _last_seq + 2
    /\ closed_with = SEQ_GAP_CLOSE_CODE
    /\ kalshiPc = "connecting"

\* The size the last snapshot of a ticker set at a price, 0 if it set none
\* (a later level of the list replaces an earlier one at the same price).
RECURSIVE SnapshotSize(_, _)
SnapshotSize(levels, price) ==
    IF levels = <<>> THEN 0
    ELSE IF levels[Len(levels)][1] = price THEN levels[Len(levels)][2]
    ELSE SnapshotSize(SubSeq(levels, 1, Len(levels) - 1), price)

\* The size at (ticker, side, price) that the accepted messages add up to:
\* the size set by the ticker's last snapshot plus every accepted delta at
\* that price since.
RECURSIVE SizeFromAccepted(_, _, _, _)
SizeFromAccepted(msgs, ticker, side, price) ==
    IF msgs = <<>> THEN 0
    ELSE LET data == msgs[Len(msgs)]
             before == SubSeq(msgs, 1, Len(msgs) - 1)
         IN IF data.msg.market_ticker # ticker
            THEN SizeFromAccepted(before, ticker, side, price)
            ELSE IF data.type = "orderbook_snapshot"
            THEN SnapshotSize(data.msg[side], price)
            ELSE IF data.msg.side = side /\ data.msg.price = price
            THEN data.msg.delta + SizeFromAccepted(before, ticker, side, price)
            ELSE SizeFromAccepted(before, ticker, side, price)

C14_Step ==
    /\ (/\ rawCount' = rawCount + 1
        /\ lastRaw'.data.type = "orderbook_delta"
        /\ lastRaw'.data.msg.market_ticker \in DOMAIN market_map
        /\ _is_sequence_valid(lastRaw'.data, _last_seq)
        /\ LadderGet(_books_state[lastRaw'.data.msg.market_ticker][lastRaw'.data.msg.side],
                     lastRaw'.data.msg.price, 0) + lastRaw'.data.msg.delta < 0)
       => /\ queue' = queue
          /\ _books_state' = _books_state
    /\ \A ticker \in DOMAIN market_map, side \in {"yes", "no"} :
          \A price \in DOMAIN _books_state'[ticker][side] :
             _books_state'[ticker][side][price] >= 0

C14_NegativeDeltaDropped == [][C14_Step]_vars

\* C15: a sequence gap closes the socket with code 4000; the connection
\* that follows resets the sequence number to 0 and empties the shadow
\* books of every market before it subscribes, so that a first snapshot
\* with seq 1 on the new connection is accepted and published.
C15_Step ==
    /\ (/\ rawCount' = rawCount + 1
        /\ lastRaw'.data.msg.market_ticker \in DOMAIN market_map
        /\ ~("seq" \in DOMAIN lastRaw'.data /\ lastRaw'.data.seq = _last_seq + 1))
       => /\ closed_with' = SEQ_GAP_CLOSE_CODE
          /\ kalshiPc' = "connecting"
    /\ (kalshiPc = "connecting" /\ kalshiPc' = "listening")
       => /\ _last_seq' = 0
          /\ \A ticker \in DOMAIN market_map, side \in {"yes", "no"} :
                DOMAIN _books_state'[ticker][side] = {}
    /\ (/\ lastRaw.verdict = "subscribed"
        /\ rawCount' = rawCount + 1
        /\ lastRaw'.data.type = "orderbook_snapshot"
        /\ lastRaw'.data.msg.market_ticker \in DOMAIN market_map
        /\ "seq" \in DOMAIN lastRaw'.data
        /\ lastRaw'.data.seq = 1)
       => /\ _last_seq' = 1
          /\ kalshiPc' = "listening"
          /\ Len(queue') = Len(queue) + 1
          /\ queue'[Len(queue')].type = "OrderBookSnapshotReceived"
          /\ queue'[Len(queue')].body.market_id = market_map[lastRaw'.data.msg.market_ticker]
          /\ \A price \in Prices :
                LadderGet(_books_state'[lastRaw'.data.msg.market_ticker].yes, price, 0)
                   = SnapshotSize(lastRaw'.data.msg.yes, price)

C15_ResubscribeAfterGap == [][C15_Step]_vars

\* The second connection followed a gap; the K2 shadow that the first
\* connection had filled is empty, and the first message of the new
\* connection, a K1 snapshot with seq 1, has been published.
C15_Witness ==
    /\ connects = 2
    /\ closed_with = SEQ_GAP_CLOSE_CODE
    /\ kalshiPc = "listening"
    /\ lastRaw.verdict = "snapshot"
    /\ lastRaw.data.seq = 1
    /\ lastRaw.data.msg.market_ticker = "K1"
    /\ accepted = <<lastRaw.data>>
    /\ Len(queue) = 2
    /\ queue[1].type = "OrderBookSnapshotReceived"
    /\ queue[1].body.market_id = "K2"
    /\ queue[1].body.bids # <<>>
    /\ DOMAIN _books_state["K2"].yes = {}
    /\ queue[2].type = "OrderBookSnapshotReceived"
    /\ queue[2].body.market_id = "K1"

\* The elements of a sequence.
Range(seq) == {seq[i] : i \in 1..Len(seq)}

\* C16: handle_trade_results_received appends the result and flushes exactly
\* when the buffer holds batch_size results or more; with only the handler
\* at work, after N results the table has stored the first
\* floor(N / batch_size) * batch_size of them and the buffer holds the
\* remaining N mod batch_size.
C16_SizeTriggeredFlush ==
    /\ storagePc = "storing" => Len(batch_to_flush.handler) >= batch_size
    /\ (periodicPc = "not_started" /\ stopPc = "not_called" /\ storagePc # "storing") =>
          LET n == Len(handled)
              k == (n \div batch_size) * batch_size
          IN /\ sink = SubSeq(handled, 1, k)
             /\ trade_results = SubSeq(handled, k + 1, n)

\* C17: when stop() returns after start(), the buffer is empty and the
\* table has stored every result the handler has appended, each exactly
\* once.
C17_Step ==
    (stopPc = "awaiting_task" /\ stopPc' = "stopped") =>
        /\ trade_results' = <<>>
        /\ Len(sink') = Len(handled')
        /\ Range(sink') = Range(handled')

C17_StopFlushesEverything == [][C17_Step]_vars

\* C18: a batch whose store failed is back in the buffer when its flush
\* ends; a result that is not in the buffer has been stored by the table,
\* or is in the hands of a flush that has not ended.
C18_FailedBatchBackInBuffer ==
    Range(handled) \subseteq
        (Range(trade_results) \cup Range(sink) \cup Range(batch_to_flush.handler)
            \cup Range(batch_to_flush.periodic) \cup Range(batch_to_flush.stop))

\* C19: the lock is never held while a store is in progress: every flush
\* path has released it before _store_trade_results is called.
C19_LockFreeDuringStore ==
    (storagePc = "storing" \/ periodicPc = "storing") => _lock = "free"

\* C20: every TradeFailed the unwinder handles ends in exactly one gateway
\* call, made on the venue of the successful leg and never on the other:
\* for a Kalshi leg a market order with action sell, on the leg's ticker
\* and side, whose count is the leg's trade size; for a Polymarket leg a
\* market SELL of the leg's token id whose size is the leg's trade size.
C20_Step ==
    LET successful_leg == cur.body.successful_leg
        placed == unwinds'[Len(unwinds')].order
        handled_one == /\ Len(ran') = Len(ran) + 1
                       /\ ran'[Len(ran')][1] = "handle_trade_failed"
    IN /\ unwinds' # unwinds => handled_one
       /\ handled_one =>
            /\ Len(unwinds') = Len(unwinds) + 1
            /\ SubSeq(unwinds', 1, Len(unwinds)) = unwinds
            /\ successful_leg.platform = KALSHI =>
                 \E count \in 0..MaxUnwindSize :
                    /\ count * SizeScale = successful_leg.trade_size
                    /\ placed = [platform |-> KALSHI, type |-> "market",
                                 ticker |-> successful_leg.kalshi_ticker,
                                 side |-> successful_leg.kalshi_side,
                                 count |-> count, action |-> "sell"]
            /\ successful_leg.platform = POLYMARKET =>
                 placed = [platform |-> POLYMARKET,
                           token_id |-> successful_leg.polymarket_token_id,
                           size |-> successful_leg.trade_size, side |-> SELL]

C20_UnwindOnSuccessfulVenueOnly == [][C20_Step]_vars

\* Two TradeFailed events have been handled to the end: a Kalshi leg bought on the no
\* side, and a Polymarket leg of a size that is not a whole number.
C20_Witness ==
    /\ Len(unwinds) = 2
    /\ doneCount = 2
    /\ \E i \in 1..2 : /\ unwinds[i].order.platform = KALSHI
                        /\ unwinds[i].order.side = "no"
    /\ \E i \in 1..2 : /\ unwinds[i].order.platform = POLYMARKET
                        /\ unwinds[i].order.size % SizeScale # 0

\* C21: when the unwind order raises, the unwinder places no second order,
\* publishes nothing, returns to the bus loop without an exception, and the
\* shutdown event is set.
C21_Step ==
    (/\ unwindPc = "placing"
     /\ unwindPc' = "idle"
     /\ unwinds'[Len(unwinds')].raised)
    => /\ Len(unwinds') = Len(unwinds) + 1
       /\ queue' = queue
       /\ nextId' = nextId
       /\ ran'[Len(ran')] = <<"handle_trade_failed", "return">>
       /\ shutdown_event'

C21_FailedUnwindSetsShutdown == [][C21_Step]_vars

\* C22: a soft reset happens in this order: cancel() reaches both adapter
\* tasks, the cool-down elapses, MarketManager.reset() empties every book,
\* and only then two new adapter tasks are created.  Between the cancel and
\* the restart no adapter task is left running; at the restart every book
\* is empty, both registered adapter tasks are new and running, the
\* orchestrator is still running and the handler returns.
C22_Step ==
    /\ resetPc \in {"sleep_2", "cool_down"}
       => \A a \in Adapters : tasks[_tasks[a]].state # "pending"
    /\ Len(tasks') > Len(tasks)
       => \/ startPc = "not_started"
          \/ resetPc = "cool_down" /\ resetPc' = "idle"
    /\ (resetPc = "cool_down" /\ resetPc' = "idle")
       => /\ \A key \in DOMAIN books' :
                /\ books'[key].bids = EmptyLadder
                /\ books'[key].asks = EmptyLadder
          /\ \A a \in Adapters :
                /\ _tasks'[a] > Len(tasks)
                /\ tasks'[_tasks'[a]] = [coro |-> a, state |-> "pending"]
          /\ \A i \in DOMAIN tasks : tasks'[i] = tasks[i]
          /\ _running /\ _running'
          /\ ran'[Len(ran')] = <<"_handle_successful_trade_and_reset", "return">>

C22_SoftResetOrder == [][C22_Step]_vars

\* A soft reset completed that found levels in a Kalshi book and whose
\* old adapter tasks ended cancelled; both new adapter tasks are running.
C22_Witness ==
    /\ Len(resets) = 1
    /\ resetPc = "idle"
    /\ \E k \in DOMAIN books : k[1] = KALSHI /\ resets[1].books_before[k].asks # EmptyLadder
    /\ \A a \in Adapters : tasks[_tasks[a]].state = "pending"
    /\ \A i \in 1..2 : resets[1].old_tasks[i].state = "cancelled"

\* C23: once the shutdown event is set, whatever the orchestrator is doing
\* (a soft reset included), every task it created is cancelled and ends and
\* the orchestrator ends with _running = FALSE; the call of stop() that
\* follows, by _start, finds _running = FALSE and changes nothing.
Stopped ==
    /\ ~_running
    /\ startPc = "returned"
    /\ \A i \in DOMAIN tasks : done(tasks[i])

C23_Step ==
    (/\ ~_running
     /\ startPc \in {"gathering", "cancelling"}
     /\ startPc' \in {"in_stop", "returned"})
    => /\ startPc' = "returned"
       /\ tasks' = tasks
       /\ ~_running'

C23_ShutdownStopsEverything ==
    /\ shutdown_event ~> Stopped
    /\ [][C23_Step]_vars

\* C24: when the orchestrator's shutdown has completed and no store has
\* failed, the TradeStorage periodic task has been cancelled, the buffer is
\* empty and every result the storage was given is in the sink.
C24_ShutdownDrainsStorage ==
    (/\ Stopped
     /\ storagePc = "idle")
    => /\ periodicPc # "sleeping"
       /\ trade_results = <<>>
       /\ sink = handled

\* The two directions of the detector as the books show them.  Direction 1
\* buys YES on Kalshi at its YES ask and NO on Polymarket at its NO ask;
\* direction 2 buys YES on Polymarket at its YES ask and NO on Kalshi at
\* 100 - the Kalshi YES bid.  The size is the smaller of the two sizes.
DirectionLegs(d, bks) ==
    LET kalshi == get_top_of_book(bks[<<KALSHI, "YES">>])
        polymarket == get_top_of_book(bks[<<POLYMARKET, IF d = 1 THEN "NO" ELSE "YES">>])
        kalshi_level == IF d = 1 THEN kalshi[2] ELSE kalshi[1]
        present == kalshi_level # NoLevel /\ polymarket[2] # NoLevel
    IN [present |-> present,
        kalshi_price |-> IF ~present THEN NoPrice
                         ELSE IF d = 1 THEN kalshi_level[1] ELSE 100 - kalshi_level[1],
        polymarket_price |-> IF present THEN polymarket[2][1] ELSE NoPrice,
        size |-> IF present THEN Min(kalshi_level[2], polymarket[2][2]) ELSE 0,
        age |-> Abs(bks[<<KALSHI, "YES">>].last_update
                      - bks[<<POLYMARKET, IF d = 1 THEN "NO" ELSE "YES">>].last_update)]

\* The fee of the claim, in cents, for size / SizeScale contracts at c
\* cents: 7 % of n * c * (100 - c) / 100, rounded up to the next cent.
FeeCents(size, c) ==
    IF c <= 0 \/ c >= 100 THEN 0
    ELSE CHOOSE k \in 0..(7 * size) :
            /\ k * 10000 * SizeScale >= 7 * size * c * (100 - c)
            /\ (k - 1) * 10000 * SizeScale < 7 * size * c * (100 - c)

\* Size times the effective cost of a direction in cents: both prices plus
\* the fee per contract.
CostTimesSize(legs) ==
    (legs.kalshi_price + legs.polymarket_price) * legs.size
        + FeeCents(legs.size, legs.kalshi_price) * SizeScale

Fresh(legs) == legs.age <= STALENESS_THRESHOLD

Qualifies(d, bks) ==
    LET legs == DirectionLegs(d, bks)
    IN /\ legs.present
       /\ Fresh(legs)
       /\ legs.size > 0
       /\ CostTimesSize(legs) < 99 * legs.size

\* The step of handle_market_book_update on an event of the market, with
\* the flag not set.
DetectorStep ==
    /\ CurHandler = "handle_market_book_update"
    /\ hidx' = hidx + 1
    /\ ~is_trade_in_progress

\* What that step published.
DetectorPublished == SubSeq(queue', Len(queue) + 1, Len(queue'))

\* The opportunity is the one of direction d.
IsDirection(opportunity, d, bks) ==
    LET legs == DirectionLegs(d, bks)
    IN /\ opportunity.buy_yes_platform = (IF d = 1 THEN KALSHI ELSE POLYMARKET)
       /\ opportunity.buy_no_platform = (IF d = 1 THEN POLYMARKET ELSE KALSHI)
       /\ opportunity.buy_yes_price = (IF d = 1 THEN legs.kalshi_price ELSE legs.polymarket_price)
       /\ opportunity.buy_no_price = (IF d = 1 THEN legs.polymarket_price ELSE legs.kalshi_price)
       /\ opportunity.potential_trade_size = legs.size

\* C25: a MarketBookUpdated handled with the flag not set publishes at most
\* one ArbitrageOpportunityFound: the one of direction 1 when direction 1
\* qualifies, whether or not direction 2 does; the one of direction 2 when
\* only direction 2 qualifies; and when neither qualifies nothing is
\* published and the flag stays unset.
C25_Step ==
    DetectorStep =>
        /\ Len(DetectorPublished) <= 1
        /\ \A i \in DOMAIN DetectorPublished :
              DetectorPublished[i].type = "ArbitrageOpportunityFound"
        /\ Qualifies(1, books)
              => /\ Len(DetectorPublished) = 1
                 /\ IsDirection(DetectorPublished[1].body.opportunity, 1, books)
        /\ (~Qualifies(1, books) /\ Qualifies(2, books))
              => /\ Len(DetectorPublished) = 1
                 /\ IsDirection(DetectorPublished[1].body.opportunity, 2, books)
        /\ (~Qualifies(1, books) /\ ~Qualifies(2, books))
              => /\ DetectorPublished = <<>>
                 /\ ~is_trade_in_progress'

C25_FirstQualifyingDirection == [][C25_Step]_vars

\* Both directions qualified and the opportunity of direction 1 was
\* published and passed on.
C25_Witness ==
    /\ Qualifies(1, books)
    /\ Qualifies(2, books)
    /\ is_trade_in_progress
    /\ cur.type = "ArbitrageOpportunityFound"
    /\ IsDirection(cur.body.opportunity, 1, books)
    /\ ~IsDirection(cur.body.opportunity, 2, books)
    /\ hidx = 2

\* C26: a direction whose two books were updated more than
\* STALENESS_THRESHOLD (5 s) apart yields no opportunity, whatever the
\* prices and sizes, and the other direction is evaluated all the same.
C26_Step ==
    DetectorStep =>
        \A d \in {1, 2} :
            ~Fresh(DirectionLegs(d, books))
            => /\ \A i \in DOMAIN DetectorPublished :
                     /\ DetectorPublished[i].type = "ArbitrageOpportunityFound"
                     /\ ~IsDirection(DetectorPublished[i].body.opportunity, d, books)
               /\ Qualifies(3 - d, books)
                     => \E i \in DOMAIN DetectorPublished :
                           IsDirection(DetectorPublished[i].body.opportunity, 3 - d, books)

C26_StalenessGate == [][C26_Step]_vars

\* Direction 1 had prices that qualify but books 6 s apart, and the
\* opportunity of direction 2 was published.
C26_Witness ==
    /\ DirectionLegs(1, books).present
    /\ DirectionLegs(1, books).age = STALENESS_THRESHOLD + 1
    /\ CostTimesSize(DirectionLegs(1, books)) < 99 * DirectionLegs(1, books).size
    /\ cur.type = "ArbitrageOpportunityFound"
    /\ IsDirection(cur.body.opportunity, 2, books)
    /\ hidx = 2

\* C27: a direction with both prices present and fresh books qualifies
\* exactly when its size is positive and price + price + fee / size is
\* strictly below 0.99; the opportunity published for it carries that size
\* and profit_margin = 1 - that cost.
C27_Step ==
    DetectorStep =>
        /\ \A i \in DOMAIN DetectorPublished :
              LET opportunity == DetectorPublished[i].body.opportunity
                  d == IF opportunity.buy_yes_platform = KALSHI THEN 1 ELSE 2
                  legs == DirectionLegs(d, books)
              IN /\ IsDirection(opportunity, d, books)
                 /\ legs.present /\ Fresh(legs)
                 /\ legs.size > 0
                 /\ CostTimesSize(legs) < 99 * legs.size
                 /\ opportunity.profit_margin[1] * 100 * legs.size
                       = (100 * legs.size - CostTimesSize(legs)) * opportunity.profit_margin[2]
                 /\ opportunity.profit_margin[2] > 0
        /\ (\E d \in {1, 2} :
               LET legs == DirectionLegs(d, books)
               IN /\ legs.present /\ Fresh(legs)
                  /\ legs.size > 0
                  /\ CostTimesSize(legs) < 99 * legs.size)
              => DetectorPublished # <<>>

C27_QualifiesIffBelowBuffer == [][C27_Step]_vars

\* Direction 1 came to exactly 0.99 (0.40 + 0.57 + a fee of 0.02 a
\* contract), direction 2 had no prices, and nothing was published.
C27_Witness ==
    /\ DirectionLegs(1, books).present
    /\ Fresh(DirectionLegs(1, books))
    /\ CostTimesSize(DirectionLegs(1, books)) = 99 * DirectionLegs(1, books).size
    /\ ~DirectionLegs(2, books).present
    /\ ran = <<<<"handle_market_book_update", "return">>>>
    /\ queue = <<>>
    /\ ~is_trade_in_progress

\* C28: for n >= 1 whole contracts at c whole cents, _kalshi_fee is the
\* smallest whole number of cents that is at least 7 * n * c * (100 - c) /
\* 10000 when 0 < c < 100, and 0 when the price is <= 0 or >= 1.
C28_KalshiFee ==
    called.op = "_kalshi_fee" =>
        IF called.price <= 0 \/ called.price >= 100 THEN called.result = 0
        ELSE /\ called.result * 10000 >= 7 * called.contracts * called.price * (100 - called.price)
             /\ (called.result - 1) * 10000 < 7 * called.contracts * called.price * (100 - called.price)

\* The fee of 10 contracts at 0.25: 13.125 cents, rounded up to 14.
C28_Witness ==
    called = [op |-> "_kalshi_fee", contracts |-> 10, price |-> 25, result |-> 14]

\* The size the claim describes, for the call recorded in `called`.
SizerFloorSqrt ==
    CHOOSE k \in 0..called.trade_opportunity_size :
        /\ k * k * SizeScale <= called.trade_opportunity_size
        /\ (k + 1) * (k + 1) * SizeScale > called.trade_opportunity_size

SizerBudget ==
    LET kalshi == ((called.wallets.kalshi_wallet.amount \div 100) * 95 - called.kalshi_fees) \div 100
        polymarket == called.wallets.polymarket_wallet.amount \div 100
    IN IF Min(kalshi, polymarket) > 0 THEN Min(kalshi, polymarket) ELSE 0

\* C29: get_trade_size returns s = min(floor(sqrt(size)), wallet budget)
\* when s >= SHUTDOWN_BALANCE and 0 otherwise; 0 when a wallet lacks its
\* currency and 0 when the maximum spend has been reached; the result is
\* never negative and never above either wallet's balance.
C29_TradeSize ==
    called.op = "get_trade_size" =>
        /\ called.result >= 0
        /\ IF ~called.wallets.kalshi_wallet.present \/ ~called.wallets.polymarket_wallet.present
           THEN called.result = 0
           ELSE /\ called.result * 100 <= called.wallets.kalshi_wallet.amount
                /\ called.result * 100 <= called.wallets.polymarket_wallet.amount
                /\ called.result =
                      (IF called.maximum_spend_reached THEN 0
                       ELSE IF Min(SizerFloorSqrt, SizerBudget) >= SHUTDOWN_BALANCE
                       THEN Min(SizerFloorSqrt, SizerBudget) ELSE 0)

\* C30: the size the executor sends on both legs of an ExecuteTrade is
\* the result of the trade-size policy for the command's opportunity, so
\* never above floor(sqrt(potential_trade_size)); and an attempt of size 0
\* places no order and publishes only TradeAttemptCompleted.
C30_LegSizeIsPolicySize ==
    /\ execCmd.present
          => execCmd.trade_size <= calculate_trade_size(execCmd.opportunity.potential_trade_size)
    /\ lastAttempt.path = "zero_size"
          => /\ lastAttempt.trade_size = 0
             /\ lastAttempt.published = <<TradeAttemptCompleted>>
             /\ lastAttempt.kalshi_result = NoOrder
             /\ lastAttempt.polymarket_result = NoOrder

\* C31: the run loop of a configured venue adapter moves only along
\* DISCONNECTED -> CONNECTING -> SUBSCRIBING -> STREAMING; whatever ends a
\* connection brings it back to DISCONNECTED with the socket dropped and
\* the fixed cooldown (5 s on Kalshi, 3 s on Polymarket) to wait, after
\* which it connects again; the loop ends only after a cancellation, and
\* only CancelledError leaves it.
C31_Step ==
    \A venue \in Venues :
        LET before == loops[venue]
            after == loops'[venue]
            connected == {"CONNECTING", "SUBSCRIBING", "STREAMING"}
        IN before.configured =>
              /\ \/ after.pc = before.pc
                 \/ <<before.pc, after.pc>> \in
                       {<<"DISCONNECTED", "CONNECTING">>, <<"CONNECTING", "SUBSCRIBING">>,
                        <<"SUBSCRIBING", "STREAMING">>}
                 \/ before.pc \in connected /\ after.pc = "DISCONNECTED"
                 \/ after.pc = "ENDED" /\ after.cancel_requested
              /\ (before.pc \in connected /\ after.pc = "DISCONNECTED")
                    => /\ ~after._ws
                       /\ after.sleep = IF venue = KALSHI THEN 5 ELSE 3
              /\ (before.pc = "DISCONNECTED" /\ ~after.cancel_requested)
                    => after.pc \in {"DISCONNECTED", "CONNECTING"}
              /\ after.pc = "ENDED" => after.ended_with = "CancelledError"

C31_RunLoopNeverEndsOnItsOwn == [][C31_Step]_vars

\* A configured adapter that lost its first connection to an error is
\* streaming again on its second one, and nobody cancelled it.
C31_Witness ==
    \E venue \in Venues :
        /\ loops[venue].configured
        /\ ~loops[venue].cancel_requested
        /\ loops[venue].last_error \in {"ConnectionClosed", "TimeoutError"}
        /\ loops[venue].connects = 2
        /\ loops[venue].pc = "STREAMING"

\* C32: when both legs fail, handle_trade_response publishes one message
\* and no more, the StoreTradeResults, and the shutdown event is set.
C32_BothFailPublishesStoreOnly ==
    lastAttempt.path = "both_fail" =>
        /\ Len(lastAttempt.published) = 1
        /\ Count(lastAttempt.published, "StoreTradeResults") = 1
        /\ shutdown_event

\* C33: a Kalshi snapshot or delta that is accepted is published as an
\* event of the YES book of its market: every 'yes' level at c cents is a
\* YES bid at c cents with its size, every 'no' level at c cents is a YES
\* ask at 100 - c cents with its size (for a delta, the size of the level
\* after the delta); no event of the Kalshi adapter is for a NO book.
C33_Step ==
    LET data == lastRaw'.data
        msg == data.msg
        event == queue'[Len(queue')]
        level_before == LadderGet(_books_state[msg.market_ticker][msg.side], msg.price, 0)
        Accepted == /\ rawCount' = rawCount + 1
                    /\ msg.market_ticker \in DOMAIN market_map
                    /\ _is_sequence_valid(data, _last_seq)
    IN /\ (Accepted /\ data.type = "orderbook_snapshot")
             => /\ Len(queue') = Len(queue) + 1
                /\ event.type = "OrderBookSnapshotReceived"
                /\ event.body.platform = KALSHI
                /\ event.body.market_id = market_map[msg.market_ticker]
                /\ event.body.outcome = "YES"
                /\ Len(event.body.bids) = Len(msg.yes)
                /\ Len(event.body.asks) = Len(msg.no)
                /\ \A i \in 1..Len(msg.yes) :
                      event.body.bids[i] = <<msg.yes[i][1], msg.yes[i][2] * SizeScale>>
                /\ \A i \in 1..Len(msg.no) :
                      event.body.asks[i] = <<100 - msg.no[i][1], msg.no[i][2] * SizeScale>>
       /\ (Accepted /\ data.type = "orderbook_delta" /\ level_before + msg.delta >= 0)
             => /\ Len(queue') = Len(queue) + 1
                /\ event.type = "OrderBookDeltaReceived"
                /\ event.body.platform = KALSHI
                /\ event.body.market_id = market_map[msg.market_ticker]
                /\ event.body.outcome = "YES"
                /\ event.body.side = IF msg.side = "yes" THEN BUY ELSE SELL
                /\ event.body.price = IF msg.side = "yes" THEN msg.price ELSE 100 - msg.price
                /\ event.body.size = (level_before + msg.delta) * SizeScale
       /\ \A i \in 1..Len(queue') :
             queue'[i].body.platform = KALSHI => queue'[i].body.outcome = "YES"

C33_KalshiNormalization == [][C33_Step]_vars

\* A 'no' delta was published after a snapshot that carried a 'no' level.
C33_Witness ==
    /\ lastRaw.verdict = "delta"
    /\ lastRaw.data.msg.side = "no"
    /\ \E i \in 1..Len(accepted) :
          /\ accepted[i].type = "orderbook_snapshot"
          /\ Len(accepted[i].msg.no) > 0
    /\ Len(queue) >= 2

\* C35: for every book and every depth >= 1 get_book_snapshot(depth)
\* returns, without failing, the min(depth, number of levels) best levels
\* of each side: the highest-priced bids, highest first, and the
\* lowest-priced asks, lowest first, each with its size.
C35_BookSnapshotBestLevels ==
    bookOp.op = "get_book_snapshot" =>
        LET book == books[BookUnderTest]
            result == bookOp.result
        IN /\ result.raised = None
           /\ Len(result.bids) = Min(bookOp.depth, Cardinality(DOMAIN book.bids))
           /\ Len(result.asks) = Min(bookOp.depth, Cardinality(DOMAIN book.asks))
           /\ \A i \in 1..Len(result.bids) :
                 /\ result.bids[i][1] \in DOMAIN book.bids
                 /\ result.bids[i][2] = book.bids[result.bids[i][1]]
                 /\ Cardinality({p \in DOMAIN book.bids : p > result.bids[i][1]}) = i - 1
           /\ \A i \in 1..Len(result.asks) :
                 /\ result.asks[i][1] \in DOMAIN book.asks
                 /\ result.asks[i][2] = book.asks[result.asks[i][1]]
                 /\ Cardinality({p \in DOMAIN book.asks : p < result.asks[i][1]}) = i - 1

\* The levels a side holds once a list of (price, size) levels with
\* distinct prices has replaced it: those of non-zero size.
LevelsOf(levels) ==
    {<<levels[i][1], levels[i][2]>> : i \in {j \in 1..Len(levels) : levels[j][2] # 0}}
LevelsIn(ladder) == {<<p, ladder[p]>> : p \in DOMAIN ladder}

\* C34: a snapshot replaces the book.  After _handle_snapshot the book
\* the event addresses holds exactly the levels of the snapshot that have
\* a non-zero size and none of its earlier levels; the second handling of
\* the same snapshot leaves get_top_of_book() and get_book_snapshot(depth)
\* as they were and publishes no MarketBookUpdated.
C34_Step ==
    LET event == cur.body
        key == FindBook(event.market_id, event.platform, event.outcome)
    IN (CurHandler = "_handle_snapshot" /\ hidx' = hidx + 1 /\ key # <<>>)
          => /\ LevelsIn(books'[key].bids) = LevelsOf(event.bids)
             /\ LevelsIn(books'[key].asks) = LevelsOf(event.asks)
             /\ hidx = 2
                   => /\ get_top_of_book(books'[key]) = get_top_of_book(books[key])
                      /\ \A depth \in 1..MaxDepth :
                            get_book_snapshot(books'[key], depth) = get_book_snapshot(books[key], depth)
                      /\ queue' = queue

C34_SnapshotReplacesBook == [][C34_Step]_vars

\* The second of two snapshots has been handled twice: it carried a level
\* of size 0 and one of non-zero size, and the book holds the latter alone.
C34_Witness ==
    /\ cur.type = "OrderBookSnapshotReceived"
    /\ hidx = 3
    /\ gotCount = 2
    /\ cur.body.bids = <<<<40, 0>>, <<58, 1>>>>
    /\ cur.body.asks = <<>>
    /\ LevelsIn(books[<<KALSHI, "YES">>].bids) = {<<58, 1>>}
    /\ DOMAIN books[<<KALSHI, "YES">>].asks = {}

\* C36: with the subscriptions of bootstrap every snapshot and every delta
\* is handled twice by the same MarketManager handler; the second
\* application leaves the bids and asks the first one left, and the two
\* calls together publish at most one MarketBookUpdated.
C36_Step ==
    LET event == cur.body
        key == FindBook(event.market_id, event.platform, event.outcome)
        handler == IF cur.type = "OrderBookSnapshotReceived" THEN "_handle_snapshot"
                   ELSE "_handle_delta"
    IN /\ cur.type \in {"OrderBookSnapshotReceived", "OrderBookDeltaReceived"}
          => /\ HandlersOf(cur.type) = <<handler, handler>>
             /\ (cur' # cur) => ran = <<<<handler, "return">>, <<handler, "return">>>>
       /\ (CurHandler \in {"_handle_snapshot", "_handle_delta"} /\ hidx' = hidx + 1)
          => /\ hidx = 1 => /\ Len(queue') <= Len(queue) + 1
                            /\ \A i \in (Len(queue) + 1)..Len(queue') :
                                  queue'[i].type = "MarketBookUpdated"
             /\ hidx = 2 => /\ queue' = queue
                            /\ key # <<>> => /\ books'[key].bids = books[key].bids
                                             /\ books'[key].asks = books[key].asks

C36_DoubleSubscriptionIsIdempotent == [][C36_Step]_vars

\* A delta that changed the best ask has been handled twice, and one
\* MarketBookUpdated is queued.
C36_Witness ==
    /\ cur.type = "OrderBookDeltaReceived"
    /\ cur.body.side = SELL
    /\ cur.body.size = SizeScale
    /\ hidx = 3
    /\ Len(ran) = 2
    /\ Len(queue) = 1
    /\ queue[1].type = "MarketBookUpdated"
    /\ books[<<KALSHI, "YES">>].asks[cur.body.price] = SizeScale

\* C37: a failed store never blocks: neither handle_trade_results_received
\* nor the periodic flusher ever waits, inside a flush it started under the
\* lock, for that same lock.
C37_FailedFlushNeverBlocks ==
    /\ storagePc # "deadlock"
    /\ periodicPc # "deadlock"

\* C38: whenever the detector has locked itself for a trade attempt
\* (_is_trade_in_progress is set), handle_trade_attempt_completed
\* eventually runs and clears the lock, as long as the bus runs and every
\* leg call returns or raises.
C38_TradeLockEventuallyCleared == is_trade_in_progress ~> ~is_trade_in_progress

\* C39: after the reset() of a soft reset, every order-book event the
\* manager applies, and so every change of a book, is an event published
\* after the adapters were restarted: nothing an adapter task published
\* before it was cancelled reaches a book that was reset.
C39_Step ==
    (Len(resets) > 0 /\ Len(resets') = Len(resets)) =>
        ((\/ books' # books
          \/ (CurHandler \in {"_handle_snapshot", "_handle_delta"} /\ ran' # ran))
            => /\ cur.type \in {"OrderBookSnapshotReceived", "OrderBookDeltaReceived"}
               /\ cur.id >= resets[Len(resets)].next_id)

C40_StopHasBegun == ~_running /\ startPc # "not_started"

C40_LiveTasks(name) == {i \in DOMAIN tasks : tasks[i].coro = name /\ ~done(tasks[i])}

C40_Invariant ==
    /\ (startPc = "returned" \/ monitorPc = "returned")
          => \A name \in Adapters : C40_LiveTasks(name) = {}
    /\ \A name \in Adapters : Cardinality(C40_LiveTasks(name)) <= 1

C40_Step ==
    C40_StopHasBegun => (Len(tasks') = Len(tasks) /\ resetPc' \in {"idle", "cancelled"})

====
